---------------------------- MODULE Spec2Model ----------------------------
(***************************************************************************)
(* fs-err: wrappers around the platform filesystem API that attach the     *)
(* attempted operation and the path(s) to every I/O error.                 *)
(*                                                                         *)
(* The model covers                                                        *)
(*   - the contextual error values of src/src/errors.rs and of the crate   *)
(*     root src/src/lib.rs (construction, rendering, cause);               *)
(*   - the path-taking facade functions (sync: lib.rs, file.rs, dir.rs,    *)
(*     os/unix.rs, os/windows.rs; async: async_fs/*.rs);                   *)
(*   - the File and ReadDir handles and the operations on them.            *)
(*                                                                         *)
(* The platform (std::fs, async_fs) is the environment: a small file tree  *)
(* plus a fault the platform may raise on any primitive call.              *)
(*                                                                         *)
(* Rendered messages are strings built with \o.  The grave accent that the *)
(* source puts around a path cannot be written in a string literal of this *)
(* language; GRAVE stands for that one character everywhere.               *)
(***************************************************************************)
EXTENDS Integers, Sequences, FiniteSets, TLC

VARIABLES
    fs,     \* the file tree: path -> node
    files,  \* open File handles: id -> handle or NoHandle
    dirs,   \* open ReadDir handles: id -> handle or NoHandle
    last    \* the last facade call: operation, arguments, primitives, result

vars == <<fs, files, dirs, last>>

(***************************************************************************)
(* Bounds of the model.                                                    *)
(***************************************************************************)
MaxLen == 2       \* longest file contents
MaxFiles == 1     \* File handles open at once
MaxDirs == 1      \* ReadDir handles open at once

GRAVE == "'"

(***************************************************************************)
(* std::io::Error.  A raw OS error has a code and the classification the   *)
(* platform derives from it; a custom error (io::Error::new) has the       *)
(* classification it was given and a boxed payload.                        *)
(***************************************************************************)
NoInner == [ty |-> "none"]

OsError(kind, code) ==
    [ty |-> "io", kind |-> kind, code |-> code, inner |-> NoInner]

ENOENT == OsError("NotFound", 2)
EIO == OsError("Uncategorized", 5)
EBADF == OsError("Uncategorized", 9)
EACCES == OsError("PermissionDenied", 13)
EEXIST == OsError("AlreadyExists", 17)
ENOTDIR == OsError("NotADirectory", 20)
EISDIR == OsError("IsADirectory", 21)
ENOTEMPTY == OsError("DirectoryNotEmpty", 39)

RawErrors == {ENOENT, EIO, EBADF, EACCES, EEXIST, ENOTDIR, EISDIR, ENOTEMPTY}

\* io::Error::kind
IoErrorKind(e) == e.kind

\* io::Error::new(kind, payload)
IoErrorNew(kind, payload) ==
    [ty |-> "io", kind |-> kind, code |-> 0, inner |-> payload]

Some(v) == [some |-> TRUE, val |-> v]
None == [some |-> FALSE]

(***************************************************************************)
(* Paths.  Root is the working directory: it always exists, is a           *)
(* directory, and is never named by a call.                                *)
(***************************************************************************)
Root == "."
Paths == {"a.txt", "b", "b/c.txt"}
Parent(p) == IF p = "b/c.txt" THEN "b" ELSE Root

\* the path arguments a caller may pass: the paths of the tree and the empty
\* path, which names nothing
EmptyPath == ""
Arguments == Paths \cup {EmptyPath}

\* Path::display / Into<PathBuf>: the paths of the model are valid UTF-8, which
\* both conversions copy unchanged.
PathBufFrom(p) == p
PathDisplay(p) == p

(***************************************************************************)
(* errors.rs: the contextual errors.                                       *)
(***************************************************************************)
ErrorKinds ==
    {"OpenFile", "CreateFile", "CreateDir", "SyncFile", "SetLen", "Metadata",
     "Clone", "SetPermissions", "Read", "Seek", "Write", "Flush", "ReadDir",
     "RemoveFile", "RemoveDir", "Canonicalize", "ReadLink", "SymlinkMetadata",
     "FileExists", "SeekRead", "SeekWrite", "ReadAt", "WriteAt"}

SourceDestErrorKinds ==
    {"Copy", "HardLink", "Rename", "SoftLink", "Symlink", "SymlinkDir",
     "SymlinkFile"}

\* the kinds each platform compiles in (the cfg attributes of the two enums)
Platforms == {"unix", "windows"}

ErrorKindsOn(platform) ==
    (ErrorKinds \ {"SeekRead", "SeekWrite", "ReadAt", "WriteAt"})
        \cup (IF platform = "windows" THEN {"SeekRead", "SeekWrite"}
              ELSE {"ReadAt", "WriteAt"})

SourceDestErrorKindsOn(platform) ==
    {"Copy", "HardLink", "Rename", "SoftLink"}
        \cup (IF platform = "windows" THEN {"SymlinkDir", "SymlinkFile"}
              ELSE {"Symlink"})

\* A plausible slip: the wrapper is given a fixed classification.
ErrorBuildOther(source, kind, path) ==
    IoErrorNew("Other",
               [ty |-> "Error", kind |-> kind, source |-> source,
                path |-> PathBufFrom(path)])

\* Error::build (called Error::new by file.rs)
ErrorBuild(source, kind, path) ==
    IoErrorNew(IoErrorKind(source),
               [ty |-> "Error", kind |-> kind, source |-> source,
                path |-> PathBufFrom(path)])

\* SourceDestError::build
SourceDestErrorBuild(source, kind, from_path, to_path) ==
    IoErrorNew(IoErrorKind(source),
               [ty |-> "SourceDestError", kind |-> kind, source |-> source,
                from_path |-> PathBufFrom(from_path),
                to_path |-> PathBufFrom(to_path)])

\* A plausible slip: source() left at the trait's default.
ErrorSourceNone(payload) == None

\* impl StdError for Error / SourceDestError: source()
ErrorSource(payload) == Some(payload.source)

\* impl StdError for Error / SourceDestError: cause() is self.source()
ErrorCause(payload) == ErrorSource(payload)

\* impl fmt::Display for Error: the phrase of each kind
ErrorPhrase(kind) ==
    CASE kind = "OpenFile" -> "failed to open file "
      [] kind = "CreateFile" -> "failed to create file "
      [] kind = "CreateDir" -> "failed to create directory "
      [] kind = "SyncFile" -> "failed to sync file "
      [] kind = "SetLen" -> "failed to set length of file "
      [] kind = "Metadata" -> "failed to query metadata of file "
      [] kind = "Clone" -> "failed to clone handle for file "
      [] kind = "SetPermissions" -> "failed to set permissions for file "
      [] kind = "Read" -> "failed to read from file "
      [] kind = "Seek" -> "failed to seek in file "
      [] kind = "Write" -> "failed to write to file "
      [] kind = "Flush" -> "failed to flush file "
      [] kind = "ReadDir" -> "failed to read directory "
      [] kind = "RemoveFile" -> "failed to remove file "
      [] kind = "RemoveDir" -> "failed to remove directory "
      [] kind = "Canonicalize" -> "failed to canonicalize path "
      [] kind = "ReadLink" -> "failed to read symbolic link "
      [] kind = "SymlinkMetadata" -> "failed to query metadata of symlink "
      [] kind = "FileExists" -> "failed to check file existance "
      [] kind = "SeekRead" -> "failed to seek and read from "
      [] kind = "SeekWrite" -> "failed to seek and write to "
      [] kind = "ReadAt" -> "failed to read with offset from "
      [] kind = "WriteAt" -> "failed to write with offset to "

\* A plausible slip: the cause's classification is appended to the message.
ErrorDisplayWithCause(payload) ==
    ErrorPhrase(payload.kind) \o GRAVE \o PathDisplay(payload.path) \o GRAVE
        \o ": " \o payload.source.kind

\* A plausible slip: the arm of SymlinkMetadata is a copy of Metadata's.
ErrorDisplaySymlinkAsFile(payload) ==
    (IF payload.kind = "SymlinkMetadata" THEN ErrorPhrase("Metadata")
     ELSE ErrorPhrase(payload.kind))
        \o GRAVE \o PathDisplay(payload.path) \o GRAVE

\* impl fmt::Display for Error
ErrorDisplay(payload) ==
    ErrorPhrase(payload.kind) \o GRAVE \o PathDisplay(payload.path) \o GRAVE

\* impl fmt::Display for SourceDestError: the phrase of each kind
SourceDestErrorPhrase(kind) ==
    CASE kind = "Copy" -> "failed to copy file from "
      [] kind = "HardLink" -> "failed to hardlink file from "
      [] kind = "Rename" -> "failed to rename file from "
      [] kind = "SoftLink" -> "failed to softlink file from "
      [] kind = "Symlink" -> "failed to symlink file from "
      [] kind = "SymlinkFile" -> "failed to symlink file from "
      [] kind = "SymlinkDir" -> "failed to symlink dir from "

\* impl fmt::Display for SourceDestError
SourceDestErrorDisplay(payload) ==
    SourceDestErrorPhrase(payload.kind) \o PathDisplay(payload.from_path)
        \o " to " \o PathDisplay(payload.to_path)

(***************************************************************************)
(* lib.rs: the crate root's own Error, a raw error and a rendered message. *)
(***************************************************************************)
\* Error::new
LibErrorNew(source, message) ==
    [ty |-> "LibError", source |-> source, message |-> message]

\* Error::source (the inherent method)
LibErrorSourceRef(err) == err.source

\* Error::into_io_error, and From<Error> for io::Error
IntoIoError(err) == IoErrorNew(IoErrorKind(err.source), err)

\* impl fmt::Display for Error (lib.rs)
LibErrorDisplay(err) == err.message

\* impl std::error::Error for Error (lib.rs): source() and cause()
LibErrorSource(err) == Some(LibErrorSourceRef(err))

LibErrorCause(err) == Some(LibErrorSourceRef(err))

(***************************************************************************)
(* What a caller can ask of any io::Error the facade returned.             *)
(***************************************************************************)
\* Display of the boxed payload
Render(e) ==
    CASE e.inner.ty = "Error" -> ErrorDisplay(e.inner)
      [] e.inner.ty = "SourceDestError" -> SourceDestErrorDisplay(e.inner)
      [] e.inner.ty = "LibError" -> LibErrorDisplay(e.inner)
      [] e.inner.ty = "message" -> e.inner.text
      [] OTHER -> "os error"

\* std::error::Error::source of the boxed payload
SourceOf(e) ==
    CASE e.inner.ty = "Error" -> ErrorSource(e.inner)
      [] e.inner.ty = "SourceDestError" -> ErrorSource(e.inner)
      [] e.inner.ty = "LibError" -> LibErrorSource(e.inner)
      [] OTHER -> None

\* std::error::Error::cause of the boxed payload
CauseOf(e) ==
    CASE e.inner.ty = "Error" -> ErrorCause(e.inner)
      [] e.inner.ty = "SourceDestError" -> ErrorCause(e.inner)
      [] e.inner.ty = "LibError" -> LibErrorCause(e.inner)
      [] OTHER -> None

\* the path(s) the payload names
PathsOf(e) ==
    CASE e.inner.ty = "Error" -> <<e.inner.path>>
      [] e.inner.ty = "SourceDestError" -> <<e.inner.from_path, e.inner.to_path>>
      [] OTHER -> <<>>

\* The same questions asked of what a facade call returned: an io::Error, or
\* the crate root's Error where lib.rs returns that type itself.
Message(e) == IF e.ty = "LibError" THEN LibErrorDisplay(e) ELSE Render(e)

Classification(e) ==
    IF e.ty = "LibError" THEN IoErrorKind(LibErrorSourceRef(e)) ELSE IoErrorKind(e)

SourceOfAny(e) == IF e.ty = "LibError" THEN LibErrorSource(e) ELSE SourceOf(e)

(***************************************************************************)
(* The state before any call.                                              *)
(***************************************************************************)
\* Two byte values: 1 stands for an ASCII byte, 2 for a byte that no UTF-8
\* text holds.
Bytes == {1, 2}

RECURSIVE SeqsUpTo(_)
SeqsUpTo(n) ==
    IF n = 0 THEN {<<>>}
    ELSE LET shorter == SeqsUpTo(n - 1)
         IN shorter \cup {Append(s, b) : s \in {t \in shorter : Len(t) = n - 1},
                                          b \in Bytes}

Contents == SeqsUpTo(MaxLen)

Absent == [type |-> "absent", data |-> <<>>]
Dir == [type |-> "dir", data |-> <<>>]
FileNode(data) == [type |-> "file", data |-> data]

NoHandle == [open |-> FALSE]
NoCall == [op |-> "none"]

NoFiles == [i \in 1..MaxFiles |-> NoHandle]
NoDirs == [i \in 1..MaxDirs |-> NoHandle]

Nodes == {Absent, Dir} \cup {FileNode(data) : data \in Contents}

\* the trees a program may find: a node exists only inside a directory
Trees ==
    {t \in [Paths -> Nodes] :
        \A p \in Paths :
            (Parent(p) # Root /\ t[Parent(p)].type # "dir") => t[p] = Absent}

\* the tree of the specifications that do not depend on it
OneTree == [p \in Paths |-> IF p = "a.txt" THEN FileNode(<<1>>) ELSE Absent]

(***************************************************************************)
(* Results, and the platform primitives on the file tree.  A primitive     *)
(* takes the fault f the platform raises on this call (NoFault: none) and  *)
(* yields its result and the tree it leaves.                               *)
(***************************************************************************)
NoErr == OsError("none", 0)
Ok(v) == [ok |-> TRUE, val |-> v, err |-> NoErr]
Err(e) == [ok |-> FALSE, val |-> <<>>, err |-> e]

\* The faults the platform may raise whatever the tree holds: on a call that
\* takes a path, and on a read or write of an open file (std retries an
\* interrupted open itself, a read or write it hands back).
NoFault == NoErr
EINTR == OsError("Interrupted", 4)
Faults == {EACCES, EIO, EINTR}
PathFaults == {NoFault, EACCES, EIO}
ProbeFaults == {NoFault, EIO}
StreamFaults == {NoFault, EIO, EINTR}

ParentType(tree, p) ==
    IF p = EmptyPath THEN "absent"
    ELSE IF Parent(p) = Root THEN "dir" ELSE tree[Parent(p)].type

\* the error of looking p up, NoErr when p names an existing node
LookupError(tree, p) ==
    IF ParentType(tree, p) = "file" THEN ENOTDIR
    ELSE IF ParentType(tree, p) = "absent" \/ tree[p].type = "absent" THEN ENOENT
    ELSE NoErr

\* the raw handle (std::fs::File, async_fs::File) of node p
RawFile(p, readable, writable) ==
    [node |-> p, readable |-> readable, writable |-> writable]

\* std::fs::File::open, async_fs::File::open: read-only, the node must exist
PlatformOpen(tree, p, f) ==
    [tree |-> tree,
     res |-> IF f # NoFault THEN Err(f)
             ELSE IF LookupError(tree, p) # NoErr THEN Err(LookupError(tree, p))
             ELSE Ok(<<RawFile(p, TRUE, FALSE)>>)]

\* std::fs::File::create, async_fs::File::create: write-only, creates the node
\* or truncates it
PlatformCreate(tree, p, f) ==
    LET e == IF f # NoFault THEN f
             ELSE IF ParentType(tree, p) = "file" THEN ENOTDIR
             ELSE IF ParentType(tree, p) = "absent" THEN ENOENT
             ELSE IF tree[p].type = "dir" THEN EISDIR
             ELSE NoErr
    IN IF e # NoErr THEN [tree |-> tree, res |-> Err(e)]
       ELSE [tree |-> [tree EXCEPT ![p] = FileNode(<<>>)],
             res |-> Ok(<<RawFile(p, FALSE, TRUE)>>)]

\* std::fs::File::metadata on a raw handle: the length of the node
PlatformFileLen(tree, raw, f) ==
    IF f # NoFault THEN Err(f) ELSE Ok(<<Len(tree[raw.node].data)>>)

\* the results of the read calls that std's read_to_end makes on a raw handle
\* until it stops: an interrupted call first when the platform raises EINTR,
\* then the data in one piece and the end of file
PlatformReads(tree, raw, f) ==
    LET rest == IF ~raw.readable THEN <<Err(EBADF)>>
                ELSE IF tree[raw.node].type = "dir" THEN <<Err(EISDIR)>>
                ELSE (IF tree[raw.node].data = <<>> THEN <<>>
                      ELSE <<Ok(<<Len(tree[raw.node].data)>>)>>) \o <<Ok(<<0>>)>>
    IN IF f = EINTR THEN <<Err(EINTR)>> \o rest
       ELSE IF f # NoFault THEN <<Err(f)>>
       ELSE rest

\* the results of the write calls that std's write_all makes on a raw handle
\* for a buffer of n bytes: none for an empty buffer
PlatformWrites(raw, n, f) ==
    LET rest == IF ~raw.writable THEN <<Err(EBADF)>> ELSE <<Ok(<<n>>)>>
    IN IF n = 0 THEN <<>>
       ELSE IF f = EINTR THEN <<Err(EINTR)>> \o rest
       ELSE IF f # NoFault THEN <<Err(f)>>
       ELSE rest

\* the tree after the write calls: the buffer is in the node when a call took it
TreeAfterWrites(tree, raw, contents, outcomes) ==
    IF \E i \in 1..Len(outcomes) : outcomes[i].ok
    THEN [tree EXCEPT ![raw.node] = FileNode(contents)]
    ELSE tree

\* one primitive call as the facade saw it
Prim(name, res) == [prim |-> name, res |-> res]

Utf8Valid(data) == \A i \in 1..Len(data) : data[i] = 1

\* std::fs::read, async_fs::read: the whole file
PlatformRead(tree, p, f) ==
    [tree |-> tree,
     res |-> IF f # NoFault THEN Err(f)
             ELSE IF LookupError(tree, p) # NoErr THEN Err(LookupError(tree, p))
             ELSE IF tree[p].type = "dir" THEN Err(EISDIR)
             ELSE Ok(tree[p].data)]

InvalidUtf8 ==
    IoErrorNew("InvalidData",
               [ty |-> "message", text |-> "stream did not contain valid UTF-8"])

\* std::fs::read_to_string, async_fs::read_to_string
PlatformReadToString(tree, p, f) ==
    LET r == PlatformRead(tree, p, f)
    IN IF r.res.ok /\ ~Utf8Valid(r.res.val) THEN [r EXCEPT !.res = Err(InvalidUtf8)]
       ELSE r

\* std::fs::write, async_fs::write: create or truncate, then the whole buffer
PlatformWrite(tree, p, contents, f) ==
    LET c == PlatformCreate(tree, p, f)
    IN IF ~c.res.ok THEN c
       ELSE [tree |-> [tree EXCEPT ![p] = FileNode(contents)], res |-> Ok(<<>>)]

\* std::fs::create_dir, async_fs::create_dir
PlatformCreateDir(tree, p, f) ==
    LET e == IF f # NoFault THEN f
             ELSE IF ParentType(tree, p) = "file" THEN ENOTDIR
             ELSE IF ParentType(tree, p) = "absent" THEN ENOENT
             ELSE IF tree[p].type # "absent" THEN EEXIST
             ELSE NoErr
    IN IF e # NoErr THEN [tree |-> tree, res |-> Err(e)]
       ELSE [tree |-> [tree EXCEPT ![p] = Dir], res |-> Ok(<<>>)]

\* std::fs::create_dir_all, async_fs::create_dir_all: the empty path is done;
\* else mkdir, and where that finds no parent, the parent first and mkdir
\* again; a mkdir that fails on what is a directory already is no error
RECURSIVE PlatformCreateDirAll(_, _, _)
PlatformCreateDirAll(tree, p, f) ==
    LET first == PlatformCreateDir(tree, p, NoFault)
        up == PlatformCreateDirAll(tree, Parent(p), NoFault)
        done == [tree |-> tree, res |-> Ok(<<>>)]
    IN IF p = EmptyPath THEN done
       ELSE IF f # NoFault THEN [tree |-> tree, res |-> Err(f)]
       ELSE IF first.res.ok THEN first
       ELSE IF first.res.err # ENOENT
            THEN IF tree[p].type = "dir" THEN done ELSE first
       ELSE IF ~up.res.ok THEN up
       ELSE PlatformCreateDir(up.tree, p, NoFault)

Children(p) == {c \in Paths : Parent(c) = p}

\* std::fs::remove_file, async_fs::remove_file
PlatformRemoveFile(tree, p, f) ==
    LET e == IF f # NoFault THEN f
             ELSE IF LookupError(tree, p) # NoErr THEN LookupError(tree, p)
             ELSE IF tree[p].type = "dir" THEN EISDIR
             ELSE NoErr
    IN IF e # NoErr THEN [tree |-> tree, res |-> Err(e)]
       ELSE [tree |-> [tree EXCEPT ![p] = Absent], res |-> Ok(<<>>)]

\* std::fs::remove_dir, async_fs::remove_dir: an empty directory only
PlatformRemoveDir(tree, p, f) ==
    LET e == IF f # NoFault THEN f
             ELSE IF LookupError(tree, p) # NoErr THEN LookupError(tree, p)
             ELSE IF tree[p].type # "dir" THEN ENOTDIR
             ELSE IF \E c \in Children(p) : tree[c].type # "absent" THEN ENOTEMPTY
             ELSE NoErr
    IN IF e # NoErr THEN [tree |-> tree, res |-> Err(e)]
       ELSE [tree |-> [tree EXCEPT ![p] = Absent], res |-> Ok(<<>>)]

\* std::fs::remove_dir_all, async_fs::remove_dir_all: the directory and all
\* it holds
PlatformRemoveDirAll(tree, p, f) ==
    LET e == IF f # NoFault THEN f
             ELSE IF LookupError(tree, p) # NoErr THEN LookupError(tree, p)
             ELSE IF tree[p].type # "dir" THEN ENOTDIR
             ELSE NoErr
    IN IF e # NoErr THEN [tree |-> tree, res |-> Err(e)]
       ELSE [tree |-> [q \in Paths |-> IF q = p \/ Parent(q) = p THEN Absent
                                       ELSE tree[q]],
             res |-> Ok(<<>>)]

(***************************************************************************)
(* lib.rs: File::open, File::create, the streaming impls and the whole-file *)
(* functions read, read_to_string and write.  A facade function yields the *)
(* tree it leaves, the primitive calls it made and its result.             *)
(***************************************************************************)
Quoted(phrase, path) == phrase \o GRAVE \o PathDisplay(path) \o GRAVE

\* File::from_parts (lib.rs)
LibFileFromParts(raw, path) ==
    [open |-> TRUE, api |-> "lib", file |-> raw, path |-> PathBufFrom(path)]

\* File::open (lib.rs)
LibFileOpen(tree, path, f) ==
    LET r == PlatformOpen(tree, path, f)
    IN [tree |-> r.tree,
        prims |-> <<Prim("File::open", r.res)>>,
        res |-> IF r.res.ok THEN Ok(<<LibFileFromParts(r.res.val[1], path)>>)
                ELSE Err(LibErrorNew(r.res.err,
                                     Quoted("failed to open file ", path)))]

\* File::create (lib.rs): the primitive it calls is std::fs::File::open
LibFileCreate(tree, path, f) ==
    LET r == PlatformOpen(tree, path, f)
    IN [tree |-> r.tree,
        prims |-> <<Prim("File::open", r.res)>>,
        res |-> IF r.res.ok THEN Ok(<<LibFileFromParts(r.res.val[1], path)>>)
                ELSE Err(LibErrorNew(r.res.err,
                                     Quoted("failed to create file ", path)))]

\* File::try_exec (lib.rs) on the result of the primitive
LibTryExec(file, outcome, phrase) ==
    IF outcome.ok THEN outcome
    ELSE Err(LibErrorNew(outcome.err, Quoted(phrase, file.path)))

\* map_err(Error::into_io_error)
LibMapIntoIo(r) == IF r.ok THEN r ELSE Err(IntoIoError(r.err))

\* Read for &File (lib.rs): read; Read for File delegates to it
LibFileRead(file, outcome) ==
    LibMapIntoIo(LibTryExec(file, outcome, "failed to read from file "))

\* Write for &File (lib.rs): write; Write for File delegates to it
LibFileWrite(file, outcome) ==
    LibMapIntoIo(LibTryExec(file, outcome, "failed to write to file "))

\* std's Read::read_to_end over the File's read, from the i-th read call on:
\* an Interrupted error is tried again, another error ends the loop, a read
\* of zero bytes is the end of the file.  n counts the calls made.
RECURSIVE LibReadToEnd(_, _, _)
LibReadToEnd(file, outcomes, i) ==
    LET r == LibFileRead(file, outcomes[i])
    IN IF r.ok /\ r.val = <<0>> THEN [res |-> r, n |-> i]
       ELSE IF r.ok \/ IoErrorKind(r.err) = "Interrupted"
            THEN LibReadToEnd(file, outcomes, i + 1)
       ELSE [res |-> r, n |-> i]

\* std's Write::write_all over the File's write, from the i-th write call on
RECURSIVE LibWriteAll(_, _, _)
LibWriteAll(file, outcomes, i) ==
    IF i > Len(outcomes) THEN [res |-> Ok(<<>>), n |-> i - 1]
    ELSE LET r == LibFileWrite(file, outcomes[i])
         IN IF r.ok \/ IoErrorKind(r.err) = "Interrupted"
            THEN LibWriteAll(file, outcomes, i + 1)
            ELSE [res |-> r, n |-> i]

\* The widths of the integers of initial_buffer_size, scaled down: the length
\* the probe reports is a u64, here of U64Bits bits; usize has the bits of the
\* target, 32 or 64 in the code, here half of U64Bits or all of them.
U64Bits == 6
Targets == {U64Bits \div 2, U64Bits}

RECURSIVE Pow2(_)
Pow2(n) == IF n = 0 THEN 1 ELSE 2 * Pow2(n - 1)

\* m.len() as usize: the low bits of the length
AsUsize(n, bits) == n % Pow2(bits)

\* what initial_buffer_size comes to: a capacity, or the panic of an overflow
Capacity(n) == [panic |-> FALSE, cap |-> n]
Panicked == [panic |-> TRUE, cap |-> 0]

\* A plausible slip: the extra byte is forgotten.
InitialBufferSizeExact(probe, bits, checks) ==
    IF probe.ok THEN Capacity(AsUsize(probe.val[1], bits)) ELSE Capacity(0)

\* initial_buffer_size: zero when the metadata probe fails, else the length it
\* reports, as usize, plus one; the sum that does not fit in usize panics in
\* a build with overflow checks and wraps to zero in one without
InitialBufferSize(probe, bits, checks) ==
    IF ~probe.ok THEN Capacity(0)
    ELSE IF AsUsize(probe.val[1], bits) + 1 < Pow2(bits)
         THEN Capacity(AsUsize(probe.val[1], bits) + 1)
    ELSE IF checks THEN Panicked
    ELSE Capacity((AsUsize(probe.val[1], bits) + 1) % Pow2(bits))

PrimsOf(name, outcomes, n) == [i \in 1..n |-> Prim(name, outcomes[i])]

\* A plausible slip: the failure of the metadata probe is returned.
LibReadSurfacingProbe(tree, path, fo, fm, fr) ==
    LET o == LibFileOpen(tree, path, fo)
    IN IF ~o.res.ok
       THEN [tree |-> o.tree, prims |-> o.prims, res |-> LibMapIntoIo(o.res)]
       ELSE LET file == o.res.val[1]
                probe == PlatformFileLen(o.tree, file.file, fm)
                outcomes == PlatformReads(o.tree, file.file, fr)
                rd == LibReadToEnd(file, outcomes, 1)
            IN IF ~probe.ok
               THEN [tree |-> o.tree,
                     prims |-> o.prims \o <<Prim("metadata", probe)>>,
                     res |-> LibMapIntoIo(LibTryExec(file, probe,
                                 "failed to query metadata for file "))]
               ELSE [tree |-> o.tree,
                     prims |-> o.prims \o <<Prim("metadata", probe)>>
                                   \o PrimsOf("read", outcomes, rd.n),
                     res |-> IF rd.res.ok THEN Ok(o.tree[path].data)
                             ELSE rd.res]

\* read (lib.rs)
LibRead(tree, path, fo, fm, fr) ==
    LET o == LibFileOpen(tree, path, fo)
    IN IF ~o.res.ok
       THEN [tree |-> o.tree, prims |-> o.prims, res |-> LibMapIntoIo(o.res)]
       ELSE LET file == o.res.val[1]
                probe == PlatformFileLen(o.tree, file.file, fm)
                outcomes == PlatformReads(o.tree, file.file, fr)
                rd == LibReadToEnd(file, outcomes, 1)
            IN [tree |-> o.tree,
                prims |-> o.prims \o <<Prim("metadata", probe)>>
                              \o PrimsOf("read", outcomes, rd.n),
                res |-> IF rd.res.ok THEN Ok(o.tree[path].data) ELSE rd.res]

\* read_to_string (lib.rs): std's Read::read_to_string reads to the end and
\* then refuses bytes that are not UTF-8
LibReadToString(tree, path, fo, fm, fr) ==
    LET r == LibRead(tree, path, fo, fm, fr)
    IN IF r.res.ok /\ ~Utf8Valid(r.res.val)
       THEN [r EXCEPT !.res = Err(InvalidUtf8)]
       ELSE r

\* write (lib.rs)
LibWrite(tree, path, contents, fc, fw) ==
    LET c == LibFileCreate(tree, path, fc)
    IN IF ~c.res.ok
       THEN [tree |-> c.tree, prims |-> c.prims, res |-> LibMapIntoIo(c.res)]
       ELSE LET file == c.res.val[1]
                outcomes == PlatformWrites(file.file, Len(contents), fw)
                wr == LibWriteAll(file, outcomes, 1)
            IN [tree |-> TreeAfterWrites(c.tree, file.file, contents,
                                         SubSeq(outcomes, 1, wr.n)),
                prims |-> c.prims \o PrimsOf("write", outcomes, wr.n),
                res |-> wr.res]

(***************************************************************************)
(* file.rs: the synchronous File.                                          *)
(***************************************************************************)
\* File::from_parts (file.rs)
FileFromParts(raw, path) ==
    [open |-> TRUE, api |-> "sync", file |-> raw, path |-> PathBufFrom(path)]

\* A plausible slip: the empty path is replaced by the current directory
\* before it is stored in the error.
FileOpenDotForEmpty(tree, path, f) ==
    LET r == PlatformOpen(tree, path, f)
    IN [tree |-> r.tree,
        prims |-> <<Prim("File::open", r.res)>>,
        res |-> IF r.res.ok THEN Ok(<<FileFromParts(r.res.val[1], path)>>)
                ELSE Err(ErrorBuild(r.res.err, "OpenFile",
                                    IF path = EmptyPath THEN Root ELSE path))]

\* File::open (file.rs)
FileOpen(tree, path, f) ==
    LET r == PlatformOpen(tree, path, f)
    IN [tree |-> r.tree,
        prims |-> <<Prim("File::open", r.res)>>,
        res |-> IF r.res.ok THEN Ok(<<FileFromParts(r.res.val[1], path)>>)
                ELSE Err(ErrorBuild(r.res.err, "OpenFile", path))]

\* File::create (file.rs)
FileCreate(tree, path, f) ==
    LET r == PlatformCreate(tree, path, f)
    IN [tree |-> r.tree,
        prims |-> <<Prim("File::create", r.res)>>,
        res |-> IF r.res.ok THEN Ok(<<FileFromParts(r.res.val[1], path)>>)
                ELSE Err(ErrorBuild(r.res.err, "CreateFile", path))]

(***************************************************************************)
(* async_fs: the asynchronous File and the free functions of mod.rs.  An   *)
(* await is taken as one step: the call runs to the primitive's answer.    *)
(***************************************************************************)
\* File::from_parts (async_fs/file.rs)
AsyncFileFromParts(raw, path) ==
    [open |-> TRUE, api |-> "async", file |-> raw, path |-> PathBufFrom(path)]

\* File::open (async_fs/file.rs)
AsyncFileOpen(tree, path, f) ==
    LET r == PlatformOpen(tree, path, f)
    IN [tree |-> r.tree,
        prims |-> <<Prim("File::open", r.res)>>,
        res |-> IF r.res.ok THEN Ok(<<AsyncFileFromParts(r.res.val[1], path)>>)
                ELSE Err(ErrorBuild(r.res.err, "OpenFile", path))]

\* File::create (async_fs/file.rs)
AsyncFileCreate(tree, path, f) ==
    LET r == PlatformCreate(tree, path, f)
    IN [tree |-> r.tree,
        prims |-> <<Prim("File::create", r.res)>>,
        res |-> IF r.res.ok THEN Ok(<<AsyncFileFromParts(r.res.val[1], path)>>)
                ELSE Err(ErrorBuild(r.res.err, "CreateFile", path))]

\* the shape of every free function of async_fs/mod.rs that takes one path:
\* the primitive's answer, its error wrapped with the kind and the path
AsyncWrap(name, r, kind, path) ==
    [tree |-> r.tree,
     prims |-> <<Prim(name, r.res)>>,
     res |-> IF r.res.ok THEN r.res ELSE Err(ErrorBuild(r.res.err, kind, path))]

\* A plausible slip: the whole-file read reports the kind of its first step.
AsyncReadAsOpen(tree, path, f) ==
    AsyncWrap("read", PlatformRead(tree, path, f), "OpenFile", path)

\* read (async_fs/mod.rs)
AsyncRead(tree, path, f) ==
    AsyncWrap("read", PlatformRead(tree, path, f), "Read", path)

\* read_to_string (async_fs/mod.rs)
AsyncReadToString(tree, path, f) ==
    AsyncWrap("read_to_string", PlatformReadToString(tree, path, f), "Read", path)

\* write (async_fs/mod.rs)
\* A plausible slip: a failed write is tried a second time.
AsyncWriteRetrying(tree, path, contents, f) ==
    LET first == PlatformWrite(tree, path, contents, f)
        second == PlatformWrite(tree, path, contents, NoFault)
    IN IF first.res.ok THEN AsyncWrap("write", first, "Write", path)
       ELSE [AsyncWrap("write", second, "Write", path)
                 EXCEPT !.prims = <<Prim("write", first.res)>> \o @]

\* write (async_fs/mod.rs)
AsyncWrite(tree, path, contents, f) ==
    AsyncWrap("write", PlatformWrite(tree, path, contents, f), "Write", path)

\* create_dir (async_fs/mod.rs)
AsyncCreateDir(tree, path, f) ==
    AsyncWrap("create_dir", PlatformCreateDir(tree, path, f), "CreateDir", path)

\* create_dir_all (async_fs/mod.rs)
\* A plausible slip: create_dir_all calls the platform's create_dir.
AsyncCreateDirAllSingle(tree, path, f) ==
    AsyncWrap("create_dir_all", PlatformCreateDir(tree, path, f),
              "CreateDir", path)

\* create_dir_all (async_fs/mod.rs)
AsyncCreateDirAll(tree, path, f) ==
    AsyncWrap("create_dir_all", PlatformCreateDirAll(tree, path, f),
              "CreateDir", path)

\* ---- async_fs/dir_builder.rs ----
\* DirBuilder::new: not recursive
DirBuilderNew == [recursive |-> FALSE]

\* DirBuilder::recursive
DirBuilderRecursive(builder, recursive) ==
    [builder EXCEPT !.recursive = recursive]

\* async_fs::DirBuilder::create: create_dir_all when recursive, else create_dir
PlatformDirBuilderCreate(builder, tree, p, f) ==
    IF builder.recursive THEN PlatformCreateDirAll(tree, p, f)
    ELSE PlatformCreateDir(tree, p, f)

\* A plausible slip: the error names the directory the new one goes into.
DirBuilderCreateNamesParent(builder, tree, path, f) ==
    AsyncWrap("DirBuilder::create",
              PlatformDirBuilderCreate(builder, tree, path, f),
              "CreateDir", IF path \in Paths THEN Parent(path) ELSE path)

\* DirBuilder::create
DirBuilderCreate(builder, tree, path, f) ==
    AsyncWrap("DirBuilder::create",
              PlatformDirBuilderCreate(builder, tree, path, f),
              "CreateDir", path)

\* remove_dir (async_fs/mod.rs)
AsyncRemoveDir(tree, path, f) ==
    AsyncWrap("remove_dir", PlatformRemoveDir(tree, path, f), "RemoveDir", path)

\* remove_dir_all (async_fs/mod.rs)
AsyncRemoveDirAll(tree, path, f) ==
    AsyncWrap("remove_dir_all", PlatformRemoveDirAll(tree, path, f),
              "RemoveDir", path)

\* remove_file (async_fs/mod.rs)
\* A plausible slip: the primitive's error is dropped and Ok returned.
AsyncRemoveFileSwallowing(tree, path, f) ==
    [AsyncWrap("remove_file", PlatformRemoveFile(tree, path, f), "RemoveFile", path)
         EXCEPT !.res = Ok(<<>>)]

\* remove_file (async_fs/mod.rs)
AsyncRemoveFile(tree, path, f) ==
    AsyncWrap("remove_file", PlatformRemoveFile(tree, path, f), "RemoveFile", path)

(***************************************************************************)
(* SpecErr: the error values alone.  One raw error, kind and path (or pair *)
(* of paths) is wrapped, and the wrapped error is then asked for its        *)
(* message, its source and its cause.                                      *)
(***************************************************************************)
BuildOps == {"Error::build", "SourceDestError::build", "Error::into_io_error"}

Built(op, source, out) ==
    [op |-> op, source |-> source, out |-> out, queried |-> FALSE,
     msg |-> "", src |-> None, cause |-> None]

\* Error::build on one raw error, kind and path
BuildError ==
    \E source \in RawErrors, kind \in ErrorKinds, path \in Paths :
        /\ last = NoCall
        /\ last' = Built("Error::build", source, ErrorBuild(source, kind, path))
        /\ UNCHANGED <<fs, files, dirs>>

\* SourceDestError::build on one raw error, kind and pair of paths
BuildSourceDestError ==
    \E source \in RawErrors, kind \in SourceDestErrorKinds,
       from_path \in Paths, to_path \in Paths :
        /\ last = NoCall
        /\ last' = Built("SourceDestError::build", source,
                         SourceDestErrorBuild(source, kind, from_path, to_path))
        /\ UNCHANGED <<fs, files, dirs>>

\* lib.rs: Error::new followed by Error::into_io_error
BuildLibError ==
    \E source \in RawErrors, path \in Paths :
        /\ last = NoCall
        /\ last' = Built("Error::into_io_error", source,
                         IntoIoError(LibErrorNew(source,
                             "failed to open file " \o GRAVE
                                 \o PathDisplay(path) \o GRAVE)))
        /\ UNCHANGED <<fs, files, dirs>>

\* Display, source() and cause() of the error just built
QueryError ==
    /\ last.op \in BuildOps
    /\ ~last.queried
    /\ last' = [last EXCEPT !.queried = TRUE,
                            !.msg = Render(last.out),
                            !.src = SourceOf(last.out),
                            !.cause = CauseOf(last.out)]
    /\ UNCHANGED <<fs, files, dirs>>

NextErr == BuildError \/ BuildSourceDestError \/ BuildLibError \/ QueryError

InitErr ==
    /\ fs = OneTree
    /\ files = NoFiles
    /\ dirs = NoDirs
    /\ last = NoCall

SpecErr == InitErr /\ [][NextErr]_vars

(***************************************************************************)
(* Claims about the error values (checked under SpecErr).                  *)
(***************************************************************************)
\* C1: the error returned by Error::build, SourceDestError::build and
\* Error::into_io_error has the io::ErrorKind of the raw error it wraps.
C1_KindPreserved ==
    last.op \in BuildOps => IoErrorKind(last.out) = IoErrorKind(last.source)

C1_Witness ==
    /\ last.op = "SourceDestError::build"
    /\ last.source = EACCES
    /\ IoErrorKind(last.out) = "PermissionDenied"

\* C3: source() and cause() of every contextual error are Some(e), e being the
\* raw error the error was built from.
C3_SourceIsRawError ==
    (last.op \in BuildOps /\ last.queried) =>
        /\ last.src = Some(last.source)
        /\ last.cause = Some(last.source)

C3_Witness ==
    /\ last.op = "Error::build"
    /\ last.queried
    /\ last.source = ENOENT
    /\ last.src = Some(ENOENT)

(***************************************************************************)
(* Spec: the calls that take a path.  The facade keeps no state between    *)
(* calls, so a call is decided by the tree it finds: the program starts on *)
(* any tree and makes one call of a facade function.  The File an open or  *)
(* create returns is dropped by the caller.                                *)
(***************************************************************************)
Init ==
    /\ fs \in Trees
    /\ files = NoFiles
    /\ dirs = NoDirs
    /\ last = NoCall

\* the record of a call: pre is the node at p1 before the call
Call(op, api, p1, contents, pre, r) ==
    [op |-> op, api |-> api, p1 |-> p1, contents |-> contents, pre |-> pre,
     prims |-> r.prims, res |-> r.res]

Step(op, api, path, contents, r) ==
    /\ last = NoCall
    /\ last' = Call(op, api, path, contents,
                    IF path \in Paths THEN fs[path] ELSE Absent, r)
    /\ fs' = r.tree
    /\ UNCHANGED <<files, dirs>>

CallLibFileOpen ==
    \E path \in Arguments, f \in PathFaults :
        Step("File::open", "lib", path, <<>>, LibFileOpen(fs, path, f))

CallLibFileCreate ==
    \E path \in Arguments, f \in PathFaults :
        Step("File::create", "lib", path, <<>>, LibFileCreate(fs, path, f))

CallFileOpen ==
    \E path \in Arguments, f \in PathFaults :
        Step("File::open", "sync", path, <<>>, FileOpen(fs, path, f))

CallFileCreate ==
    \E path \in Arguments, f \in PathFaults :
        Step("File::create", "sync", path, <<>>, FileCreate(fs, path, f))

CallAsyncFileOpen ==
    \E path \in Arguments, f \in PathFaults :
        Step("File::open", "async", path, <<>>, AsyncFileOpen(fs, path, f))

CallAsyncFileCreate ==
    \E path \in Arguments, f \in PathFaults :
        Step("File::create", "async", path, <<>>, AsyncFileCreate(fs, path, f))

CallLibRead ==
    \E path \in Arguments, fo \in PathFaults, fm \in ProbeFaults, fr \in StreamFaults :
        Step("read", "lib", path, <<>>, LibRead(fs, path, fo, fm, fr))

CallLibReadToString ==
    \E path \in Arguments, fo \in PathFaults, fm \in ProbeFaults, fr \in StreamFaults :
        Step("read_to_string", "lib", path, <<>>,
             LibReadToString(fs, path, fo, fm, fr))

CallLibWrite ==
    \E path \in Arguments, contents \in Contents,
       fc \in PathFaults, fw \in StreamFaults :
        Step("write", "lib", path, contents, LibWrite(fs, path, contents, fc, fw))

CallAsyncRead ==
    \E path \in Arguments, f \in PathFaults :
        Step("read", "async", path, <<>>, AsyncRead(fs, path, f))

CallAsyncReadToString ==
    \E path \in Arguments, f \in PathFaults :
        Step("read_to_string", "async", path, <<>>, AsyncReadToString(fs, path, f))

CallAsyncWrite ==
    \E path \in Arguments, contents \in Contents, f \in PathFaults :
        Step("write", "async", path, contents, AsyncWrite(fs, path, contents, f))

CallAsyncCreateDir ==
    \E path \in Arguments, f \in PathFaults :
        Step("create_dir", "async", path, <<>>, AsyncCreateDir(fs, path, f))

CallAsyncCreateDirAll ==
    \E path \in Arguments, f \in PathFaults :
        Step("create_dir_all", "async", path, <<>>, AsyncCreateDirAll(fs, path, f))

CallAsyncRemoveDir ==
    \E path \in Arguments, f \in PathFaults :
        Step("remove_dir", "async", path, <<>>, AsyncRemoveDir(fs, path, f))

CallAsyncRemoveDirAll ==
    \E path \in Arguments, f \in PathFaults :
        Step("remove_dir_all", "async", path, <<>>, AsyncRemoveDirAll(fs, path, f))

CallAsyncRemoveFile ==
    \E path \in Arguments, f \in PathFaults :
        Step("remove_file", "async", path, <<>>, AsyncRemoveFile(fs, path, f))

Next ==
    \/ CallLibFileOpen
    \/ CallLibFileCreate
    \/ CallFileOpen
    \/ CallFileCreate
    \/ CallAsyncFileOpen
    \/ CallAsyncFileCreate
    \/ CallLibRead
    \/ CallLibReadToString
    \/ CallLibWrite
    \/ CallAsyncRead
    \/ CallAsyncReadToString
    \/ CallAsyncWrite
    \/ CallAsyncCreateDir
    \/ CallAsyncCreateDirAll
    \/ CallAsyncRemoveDir
    \/ CallAsyncRemoveDirAll
    \/ CallAsyncRemoveFile

Spec == Init /\ [][Next]_vars

\* the tree holds a node only inside a directory
TreeOk == \A p \in Paths : fs[p].type # "absent" => ParentType(fs, p) = "dir"

(***************************************************************************)
(* Claims about the calls that take one path (checked under Spec).         *)
(***************************************************************************)
\* the platform raised a fault during the call
Faulted(call) ==
    \E i \in 1..Len(call.prims) :
        ~call.prims[i].res.ok /\ call.prims[i].res.err \in Faults

\* the tree the call found
PreTree == IF last.p1 \in Paths THEN [fs EXCEPT ![last.p1] = last.pre] ELSE fs

\* the call found no node at its path, and the platform says so
FoundMissing ==
    /\ last.pre.type = "absent"
    /\ LookupError(PreTree, last.p1) = ENOENT
    /\ ~Faulted(last)

\* C2: File::open of a path that does not exist returns an error whose message
\* is exactly "failed to open file " and the path between grave accents, and
\* whose classification and cause are the platform's not-found error.
C2_OpenMissing ==
    (last.op = "File::open" /\ FoundMissing) =>
        /\ ~last.res.ok
        /\ Message(last.res.err) = "failed to open file " \o GRAVE \o last.p1 \o GRAVE
        /\ Classification(last.res.err) = "NotFound"
        /\ SourceOfAny(last.res.err) = Some(ENOENT)

C2_Witness ==
    /\ last.op = "File::open"
    /\ last.api = "sync"
    /\ last.p1 = "a.txt"
    /\ FoundMissing
    /\ Message(last.res.err) = "failed to open file " \o GRAVE \o "a.txt" \o GRAVE

\* the call could create or truncate: the parent is a directory, the path
\* names no directory, and the platform raised no fault
CouldCreate ==
    /\ ParentType(PreTree, last.p1) = "dir"
    /\ last.pre.type \in {"absent", "file"}
    /\ ~Faulted(last)

\* the whole-file read of the same api, on a platform that raises no fault
ReadBack(api, tree, path) ==
    IF api = "lib" THEN LibRead(tree, path, NoFault, NoFault, NoFault).res
    ELSE AsyncRead(tree, path, NoFault).res

\* C4: write(p, c) into an existing writable directory succeeds, and a
\* following read(p) returns exactly c, whether p was absent, empty or longer.
C4_WriteReadRoundTrip ==
    (last.op = "write" /\ CouldCreate) =>
        /\ last.res.ok
        /\ ReadBack(last.api, fs, last.p1) = Ok(last.contents)

\* C5: File::create succeeds where the platform's create does, leaves an empty
\* file at p and returns a handle that accepts writes; when it fails the
\* platform's create failed, and the message is "failed to create file " and
\* the path between grave accents.
C5_CreateTruncates ==
    last.op = "File::create" =>
        /\ CouldCreate =>
              /\ last.res.ok
              /\ fs[last.p1] = FileNode(<<>>)
              /\ last.res.val[1].file.writable
        /\ ~last.res.ok =>
              /\ last.prims[1].prim = "File::create"
              /\ ~last.prims[1].res.ok
              /\ Message(last.res.err)
                     = "failed to create file " \o GRAVE \o last.p1 \o GRAVE

\* the whole-file functions both facades have
WholeFileOps == {"read", "read_to_string", "write"}

\* the asynchronous function of the same name on the same arguments
AsyncSame(op, tree, path, contents, f) ==
    CASE op = "read" -> AsyncRead(tree, path, f)
      [] op = "read_to_string" -> AsyncReadToString(tree, path, f)
      [] op = "write" -> AsyncWrite(tree, path, contents, f)

\* the raw error of the primitive that made the call fail
FailedRaw(r) == r.prims[Len(r.prims)].res.err

\* the synchronous call failed because a primitive failed
SyncPrimitiveFailed ==
    /\ last.op \in WholeFileOps
    /\ last.api = "lib"
    /\ ~last.res.ok
    /\ ~last.prims[Len(last.prims)].res.ok

\* the asynchronous calls on the tree the synchronous call found that fail
\* with the same raw error
AsyncTwins ==
    {a \in {AsyncSame(last.op, PreTree, last.p1, last.contents, f) :
                f \in PathFaults} :
        ~a.res.ok /\ FailedRaw(a) = FailedRaw(last)}

\* C8 as stated: for the same path and the same underlying failure, the
\* synchronous and the asynchronous read, read_to_string and write return
\* errors with the same message and the same classification.
C8_SameMessage ==
    SyncPrimitiveFailed =>
        \A a \in AsyncTwins :
            /\ Message(a.res.err) = Message(last.res.err)
            /\ Classification(a.res.err) = Classification(last.res.err)

StreamPhrase(op) ==
    IF op = "write" THEN "failed to write to file " ELSE "failed to read from file "

FirstStepPhrase(op) ==
    IF op = "write" THEN "failed to create file " ELSE "failed to open file "

\* C8 amended: the two errors have the same classification and quote the same
\* path; the asynchronous message names the whole operation, the synchronous
\* one the step that failed, so the messages are equal only when the
\* synchronous call failed while reading or writing.
C8_SameClassification ==
    SyncPrimitiveFailed =>
        \A a \in AsyncTwins :
            /\ Classification(a.res.err) = Classification(last.res.err)
            /\ Message(a.res.err) = StreamPhrase(last.op) \o GRAVE \o last.p1 \o GRAVE
            /\ Message(last.res.err) =
                   (IF Len(last.prims) = 1 THEN FirstStepPhrase(last.op)
                    ELSE StreamPhrase(last.op)) \o GRAVE \o last.p1 \o GRAVE

C8_Witness ==
    /\ SyncPrimitiveFailed
    /\ last.op = "read"
    /\ FailedRaw(last) = ENOENT
    /\ AsyncTwins # {}
    /\ \E a \in AsyncTwins : Message(a.res.err) # Message(last.res.err)

(***************************************************************************)
(* The platform primitives that take two paths.  The tree follows the      *)
(* paths of the model only: what a rename moves under a new name that is   *)
(* none of them leaves the tree.                                           *)
(***************************************************************************)
EPERM == OsError("PermissionDenied", 1)
EINVAL == OsError("InvalidInput", 22)

\* a symbolic link and what it points to
Link(target) == [type |-> "symlink", data |-> <<>>, target |-> target]

\* the error of creating or replacing an entry named p, NoErr when its parent
\* is a directory
EntryError(tree, p) ==
    IF ParentType(tree, p) = "file" THEN ENOTDIR
    ELSE IF ParentType(tree, p) = "absent" THEN ENOENT
    ELSE NoErr

\* std::fs::copy, async_fs::copy: the contents of src into dst, the number of
\* bytes copied
PlatformCopy(tree, src, dst, f) ==
    LET e == IF f # NoFault THEN f
             ELSE IF LookupError(tree, src) # NoErr THEN LookupError(tree, src)
             ELSE IF tree[src].type = "dir" THEN EINVAL
             ELSE IF EntryError(tree, dst) # NoErr THEN EntryError(tree, dst)
             ELSE IF tree[dst].type = "dir" THEN EISDIR
             ELSE NoErr
    IN IF e # NoErr THEN [tree |-> tree, res |-> Err(e)]
       ELSE IF src = dst THEN [tree |-> tree, res |-> Ok(<<Len(tree[src].data)>>)]
       ELSE [tree |-> [tree EXCEPT ![dst] = tree[src]],
             res |-> Ok(<<Len(tree[src].data)>>)]

\* std::fs::hard_link, async_fs::hard_link: a second name for the file src
PlatformHardLink(tree, src, dst, f) ==
    LET e == IF f # NoFault THEN f
             ELSE IF LookupError(tree, src) # NoErr THEN LookupError(tree, src)
             ELSE IF tree[src].type = "dir" THEN EPERM
             ELSE IF EntryError(tree, dst) # NoErr THEN EntryError(tree, dst)
             ELSE IF tree[dst].type # "absent" THEN EEXIST
             ELSE NoErr
    IN IF e # NoErr THEN [tree |-> tree, res |-> Err(e)]
       ELSE [tree |-> [tree EXCEPT ![dst] = tree[src]], res |-> Ok(<<>>)]

\* std::fs::rename, async_fs::rename: src under the name dst, replacing a file
\* or an empty directory of the same sort
PlatformRename(tree, src, dst, f) ==
    LET e == IF f # NoFault THEN f
             ELSE IF LookupError(tree, src) # NoErr THEN LookupError(tree, src)
             ELSE IF Parent(dst) = src THEN EINVAL
             ELSE IF EntryError(tree, dst) # NoErr THEN EntryError(tree, dst)
             ELSE IF tree[src].type # "dir" /\ tree[dst].type = "dir" THEN EISDIR
             ELSE IF tree[src].type = "dir" /\ tree[dst].type = "file" THEN ENOTDIR
             ELSE IF /\ tree[src].type = "dir"
                     /\ src # dst
                     /\ \E c \in Children(dst) : tree[c].type # "absent"
                  THEN ENOTEMPTY
             ELSE NoErr
    IN IF e # NoErr THEN [tree |-> tree, res |-> Err(e)]
       ELSE IF src = dst THEN [tree |-> tree, res |-> Ok(<<>>)]
       ELSE [tree |-> [q \in Paths |->
                          IF q = dst THEN tree[src]
                          ELSE IF q = src \/ Parent(q) = src THEN Absent
                          ELSE tree[q]],
             res |-> Ok(<<>>)]

\* std::os::unix::fs::symlink, async_fs::unix::symlink, and symlink_dir and
\* symlink_file of std::os::windows::fs and async_fs::windows: a new entry
\* link that points to original, which need not exist
PlatformSymlink(tree, original, link, f) ==
    LET e == IF f # NoFault THEN f
             ELSE IF EntryError(tree, link) # NoErr THEN EntryError(tree, link)
             ELSE IF tree[link].type # "absent" THEN EEXIST
             ELSE NoErr
    IN IF e # NoErr THEN [tree |-> tree, res |-> Err(e)]
       ELSE [tree |-> [tree EXCEPT ![link] = Link(original)], res |-> Ok(<<>>)]

ELOOP == OsError("FilesystemLoop", 40)

\* the path a link at p with target t points to: a target is relative to the
\* directory of the link, and the tree follows no path below b but b/c.txt
LinkTarget(p, t) == IF Parent(p) = Root THEN Some(t) ELSE None

\* where p leads when symbolic links are followed: the node at the end, or the
\* error of the lookup (more hops than there are paths is a loop)
RECURSIVE Follow(_, _, _)
Follow(tree, p, hops) ==
    IF LookupError(tree, p) # NoErr THEN Err(LookupError(tree, p))
    ELSE IF tree[p].type # "symlink" THEN Ok(<<p>>)
    ELSE IF hops = Cardinality(Paths) THEN Err(ELOOP)
    ELSE IF ~LinkTarget(p, tree[p].target).some THEN Err(ENOENT)
    ELSE Follow(tree, LinkTarget(p, tree[p].target).val, hops + 1)

\* what Metadata tells of a node: its type and its length
MetadataOf(node) == [file_type |-> node.type, len |-> Len(node.data)]

\* the absolute path of a path relative to the working directory
Absolute(p) == "/cwd/" \o p

\* std::fs::metadata, async_fs::metadata: of the node the path leads to
PlatformMetadata(tree, p, f) ==
    [tree |-> tree,
     res |-> IF f # NoFault THEN Err(f)
             ELSE IF ~Follow(tree, p, 0).ok THEN Follow(tree, p, 0)
             ELSE Ok(<<MetadataOf(tree[Follow(tree, p, 0).val[1]])>>)]

\* std::fs::symlink_metadata, async_fs::symlink_metadata: of the node itself
PlatformSymlinkMetadata(tree, p, f) ==
    [tree |-> tree,
     res |-> IF f # NoFault THEN Err(f)
             ELSE IF LookupError(tree, p) # NoErr THEN Err(LookupError(tree, p))
             ELSE Ok(<<MetadataOf(tree[p])>>)]

\* std::fs::canonicalize, async_fs::canonicalize: the absolute path of the
\* node the path leads to
PlatformCanonicalize(tree, p, f) ==
    [tree |-> tree,
     res |-> IF f # NoFault THEN Err(f)
             ELSE IF ~Follow(tree, p, 0).ok THEN Follow(tree, p, 0)
             ELSE Ok(<<Absolute(Follow(tree, p, 0).val[1])>>)]

\* std::fs::read_link, async_fs::read_link: the target of a symbolic link
PlatformReadLink(tree, p, f) ==
    [tree |-> tree,
     res |-> IF f # NoFault THEN Err(f)
             ELSE IF LookupError(tree, p) # NoErr THEN Err(LookupError(tree, p))
             ELSE IF tree[p].type # "symlink" THEN Err(EINVAL)
             ELSE Ok(<<tree[p].target>>)]

\* canonicalize, metadata, read_link and symlink_metadata (async_fs/mod.rs)
AsyncCanonicalize(tree, path, f) ==
    AsyncWrap("canonicalize", PlatformCanonicalize(tree, path, f),
              "Canonicalize", path)

AsyncMetadata(tree, path, f) ==
    AsyncWrap("metadata", PlatformMetadata(tree, path, f), "Metadata", path)

AsyncReadLink(tree, path, f) ==
    AsyncWrap("read_link", PlatformReadLink(tree, path, f), "ReadLink", path)

AsyncSymlinkMetadata(tree, path, f) ==
    AsyncWrap("symlink_metadata", PlatformSymlinkMetadata(tree, path, f),
              "SymlinkMetadata", path)

(***************************************************************************)
(* The facade functions that take two paths.                               *)
(***************************************************************************)
\* the shape of all of them: the primitive's answer, its error wrapped with the
\* kind and the two paths in the order the function gives them to build
SourceDestWrap(name, r, kind, from_path, to_path) ==
    [tree |-> r.tree,
     prims |-> <<Prim(name, r.res)>>,
     res |-> IF r.res.ok THEN r.res
             ELSE Err(SourceDestErrorBuild(r.res.err, kind, from_path, to_path))]

\* copy (async_fs/mod.rs)
AsyncCopy(tree, src, dst, f) ==
    SourceDestWrap("copy", PlatformCopy(tree, src, dst, f), "Copy", src, dst)

\* hard_link (async_fs/mod.rs)
AsyncHardLink(tree, src, dst, f) ==
    SourceDestWrap("hard_link", PlatformHardLink(tree, src, dst, f),
                   "HardLink", src, dst)

\* rename (async_fs/mod.rs)
AsyncRename(tree, src, dst, f) ==
    SourceDestWrap("rename", PlatformRename(tree, src, dst, f), "Rename", src, dst)

\* symlink (async_fs/unix.rs)
AsyncSymlink(tree, src, dst, f) ==
    SourceDestWrap("symlink", PlatformSymlink(tree, src, dst, f),
                   "Symlink", src, dst)

\* symlink_dir (async_fs/windows.rs)
AsyncSymlinkDir(tree, src, dst, f) ==
    SourceDestWrap("symlink_dir", PlatformSymlink(tree, src, dst, f),
                   "SymlinkDir", src, dst)

\* symlink_file (async_fs/windows.rs)
AsyncSymlinkFile(tree, src, dst, f) ==
    SourceDestWrap("symlink_file", PlatformSymlink(tree, src, dst, f),
                   "SymlinkFile", src, dst)

\* fs::symlink (os/unix.rs): build is given link first, original second
Symlink(tree, original, link, f) ==
    SourceDestWrap("symlink", PlatformSymlink(tree, original, link, f),
                   "Symlink", link, original)

\* fs::symlink_dir (os/windows.rs): build is given link first
SymlinkDir(tree, original, link, f) ==
    SourceDestWrap("symlink_dir", PlatformSymlink(tree, original, link, f),
                   "SymlinkDir", link, original)

\* fs::symlink_file (os/windows.rs): build is given link first
SymlinkFile(tree, original, link, f) ==
    SourceDestWrap("symlink_file", PlatformSymlink(tree, original, link, f),
                   "SymlinkFile", link, original)

(***************************************************************************)
(* SpecLink: one call of a function that takes two paths, from any tree.   *)
(***************************************************************************)
InitLink ==
    /\ fs \in Trees
    /\ files = NoFiles
    /\ dirs = NoDirs
    /\ last = NoCall

\* the record of a call: pre is the tree before the call
Call2(op, api, p1, p2, f, pre, r) ==
    [op |-> op, api |-> api, p1 |-> p1, p2 |-> p2, fault |-> f, pre |-> pre,
     prims |-> r.prims, res |-> r.res]

Step2(op, api, p1, p2, f, r) ==
    /\ last = NoCall
    /\ last' = Call2(op, api, p1, p2, f, fs, r)
    /\ fs' = r.tree
    /\ UNCHANGED <<files, dirs>>

CallAsyncCopy ==
    \E src \in Paths, dst \in Paths, f \in PathFaults :
        Step2("copy", "async", src, dst, f, AsyncCopy(fs, src, dst, f))

CallAsyncHardLink ==
    \E src \in Paths, dst \in Paths, f \in PathFaults :
        Step2("hard_link", "async", src, dst, f, AsyncHardLink(fs, src, dst, f))

CallAsyncRename ==
    \E src \in Paths, dst \in Paths, f \in PathFaults :
        Step2("rename", "async", src, dst, f, AsyncRename(fs, src, dst, f))

CallAsyncSymlink ==
    \E src \in Paths, dst \in Paths, f \in PathFaults :
        Step2("symlink", "async", src, dst, f, AsyncSymlink(fs, src, dst, f))

CallAsyncSymlinkDir ==
    \E src \in Paths, dst \in Paths, f \in PathFaults :
        Step2("symlink_dir", "async", src, dst, f, AsyncSymlinkDir(fs, src, dst, f))

CallAsyncSymlinkFile ==
    \E src \in Paths, dst \in Paths, f \in PathFaults :
        Step2("symlink_file", "async", src, dst, f,
              AsyncSymlinkFile(fs, src, dst, f))

CallSymlink ==
    \E original \in Paths, link \in Paths, f \in PathFaults :
        Step2("symlink", "sync", original, link, f, Symlink(fs, original, link, f))

CallSymlinkDir ==
    \E original \in Paths, link \in Paths, f \in PathFaults :
        Step2("symlink_dir", "sync", original, link, f,
              SymlinkDir(fs, original, link, f))

CallSymlinkFile ==
    \E original \in Paths, link \in Paths, f \in PathFaults :
        Step2("symlink_file", "sync", original, link, f,
              SymlinkFile(fs, original, link, f))

NextLink ==
    \/ CallAsyncCopy
    \/ CallAsyncHardLink
    \/ CallAsyncRename
    \/ CallAsyncSymlink
    \/ CallAsyncSymlinkDir
    \/ CallAsyncSymlinkFile
    \/ CallSymlink
    \/ CallSymlinkDir
    \/ CallSymlinkFile

SpecLink == InitLink /\ [][NextLink]_vars

(***************************************************************************)
(* Claims about the calls that take two paths (checked under SpecLink).    *)
(***************************************************************************)
\* the verb each function's message carries
DualVerb(op) ==
    CASE op = "copy" -> "copy file"
      [] op = "hard_link" -> "hardlink file"
      [] op = "rename" -> "rename file"
      [] op = "symlink" -> "symlink file"
      [] op = "symlink_file" -> "symlink file"
      [] op = "symlink_dir" -> "symlink dir"

DualOps ==
    {"copy", "hard_link", "rename", "symlink", "symlink_dir", "symlink_file"}

\* C6: when a call that takes two paths fails, its message is "failed to
\* <verb> from A to B", A being the call's first argument and B its second.
C6_FromFirstToSecond ==
    (last.op \in DualOps /\ ~last.res.ok) =>
        Message(last.res.err) =
            "failed to " \o DualVerb(last.op) \o " from " \o last.p1
                \o " to " \o last.p2

\* the asynchronous function of the same name on the same arguments
AsyncSymlinkSame(op, tree, p1, p2, f) ==
    CASE op = "symlink" -> AsyncSymlink(tree, p1, p2, f)
      [] op = "symlink_dir" -> AsyncSymlinkDir(tree, p1, p2, f)
      [] op = "symlink_file" -> AsyncSymlinkFile(tree, p1, p2, f)

\* C7: for the same (original, link) and the same failure of the platform,
\* the synchronous symlink, symlink_dir and symlink_file return an error with
\* the message of their asynchronous counterpart.
C7_SymlinkSameMessage ==
    (/\ last.op \in {"symlink", "symlink_dir", "symlink_file"}
     /\ last.api = "sync"
     /\ ~last.res.ok) =>
        LET a == AsyncSymlinkSame(last.op, last.pre, last.p1, last.p2, last.fault)
        IN /\ ~a.res.ok
           /\ FailedRaw(a) = FailedRaw(last)
           /\ Message(a.res.err) = Message(last.res.err)

(***************************************************************************)
(* Operations on an open File.  What the platform answers to an operation  *)
(* on a raw handle depends on the mode the handle was opened in and on the *)
(* fault it raises; the bytes moved play no part in what the File reports. *)
(***************************************************************************)
\* the raw handle's own operations: a read needs a readable handle, a write
\* or a set_len a writable one; try_clone yields a second raw handle on the
\* same open file
PlatformFileOp(raw, op, f) ==
    IF f # NoFault THEN Err(f)
    ELSE IF op = "read" /\ ~raw.readable THEN Err(EBADF)
    ELSE IF op = "write" /\ ~raw.writable THEN Err(EBADF)
    ELSE IF op = "set_len" /\ ~raw.writable THEN Err(EINVAL)
    ELSE IF op = "try_clone" THEN Ok(<<raw>>)
    ELSE Ok(<<1>>)

\* a poll of the asynchronous raw handle: not ready yet, or ready with a result
Pending == [poll |-> "pending"]
Ready(r) == [poll |-> "ready", res |-> r]

\* ---- lib.rs ----
LibFileSyncAll(file, outcome) ==
    LibTryExec(file, outcome, "failed to synchronize file ")

LibFileSyncData(file, outcome) ==
    LibTryExec(file, outcome, "failed to synchronize file ")

LibFileSetLen(file, outcome) ==
    LibTryExec(file, outcome, "failed to set length for file ")

LibFileMetadata(file, outcome) ==
    LibTryExec(file, outcome, "failed to query metadata for file ")

LibFileTryClone(file, outcome) ==
    LET r == LibTryExec(file, outcome, "failed to clone handle for file ")
    IN IF r.ok THEN Ok(<<[open |-> TRUE, api |-> "lib", file |-> r.val[1],
                          path |-> file.path]>>)
       ELSE r

LibFileSetPermissions(file, outcome) ==
    LibTryExec(file, outcome, "failed to set permissions for file ")

\* Seek for &File (lib.rs); Seek for File delegates to it
LibFileSeek(file, outcome) ==
    LibMapIntoIo(LibTryExec(file, outcome, "failed to seek in file "))

\* Write for &File (lib.rs): flush; Write for File delegates to it
LibFileFlush(file, outcome) ==
    LibMapIntoIo(LibTryExec(file, outcome, "failed to flush file "))

\* Read and Write for &File (lib.rs): read_vectored and write_vectored
LibFileReadVectored(file, outcome) ==
    LibMapIntoIo(LibTryExec(file, outcome, "failed to read from file "))

LibFileWriteVectored(file, outcome) ==
    LibMapIntoIo(LibTryExec(file, outcome, "failed to write to file "))

\* Read, Seek and Write for File (lib.rs): each method calls the method of
\* the same name of &File on a reborrow of self
LibFileOwnedRead(file, outcome) == LibFileRead(file, outcome)
LibFileOwnedReadVectored(file, outcome) == LibFileReadVectored(file, outcome)
LibFileOwnedSeek(file, outcome) == LibFileSeek(file, outcome)
LibFileOwnedWrite(file, outcome) == LibFileWrite(file, outcome)
LibFileOwnedWriteVectored(file, outcome) == LibFileWriteVectored(file, outcome)
LibFileOwnedFlush(file, outcome) == LibFileFlush(file, outcome)

\* File::file and File::path (lib.rs)
LibFileFile(file) == file.file
LibFilePath(file) == file.path

\* ---- file.rs ----
\* A plausible slip: the error names the file the raw handle was opened on.
FileErrorOfRaw(file, source, kind) == ErrorBuild(source, kind, file.file.node)

\* File::error (file.rs)
FileError(file, source, kind) == ErrorBuild(source, kind, file.path)

\* .map_err(|source| self.error(source, kind))
FileMapErr(file, outcome, kind) ==
    IF outcome.ok THEN outcome ELSE Err(FileError(file, outcome.err, kind))

FileSyncAll(file, outcome) == FileMapErr(file, outcome, "SyncFile")
FileSyncData(file, outcome) == FileMapErr(file, outcome, "SyncFile")
\* A plausible slip: set_len reports the kind of the method above it.
FileSetLenAsSyncFile(file, outcome) == FileMapErr(file, outcome, "SyncFile")

FileSetLen(file, outcome) == FileMapErr(file, outcome, "SetLen")
FileMetadata(file, outcome) == FileMapErr(file, outcome, "Metadata")

\* A plausible slip: the clone is built around the new raw handle alone.
FileTryCloneNoPath(file, outcome) ==
    IF outcome.ok THEN Ok(<<[open |-> TRUE, api |-> "sync",
                             file |-> outcome.val[1], path |-> EmptyPath]>>)
    ELSE Err(FileError(file, outcome.err, "Clone"))

FileTryClone(file, outcome) ==
    IF outcome.ok THEN Ok(<<[open |-> TRUE, api |-> "sync",
                             file |-> outcome.val[1], path |-> file.path]>>)
    ELSE Err(FileError(file, outcome.err, "Clone"))

FileSetPermissions(file, outcome) == FileMapErr(file, outcome, "SetPermissions")

\* Read, Seek and Write for File (file.rs)
FileRead(file, outcome) == FileMapErr(file, outcome, "Read")
FileReadVectored(file, outcome) == FileMapErr(file, outcome, "Read")
FileSeek(file, outcome) == FileMapErr(file, outcome, "Seek")
FileWrite(file, outcome) == FileMapErr(file, outcome, "Write")
FileWriteVectored(file, outcome) == FileMapErr(file, outcome, "Write")
FileFlush(file, outcome) == FileMapErr(file, outcome, "Flush")

\* A plausible slip: flush of &File reports the kind of the method above it.
FileRefFlushAsWrite(file, outcome) == FileMapErr(file, outcome, "Write")

\* Read, Seek and Write for &File (file.rs)
FileRefRead(file, outcome) == FileMapErr(file, outcome, "Read")
FileRefReadVectored(file, outcome) == FileMapErr(file, outcome, "Read")
FileRefSeek(file, outcome) == FileMapErr(file, outcome, "Seek")
FileRefWrite(file, outcome) == FileMapErr(file, outcome, "Write")
FileRefWriteVectored(file, outcome) == FileMapErr(file, outcome, "Write")
FileRefFlush(file, outcome) == FileMapErr(file, outcome, "Flush")

\* File::file and File::path (file.rs)
FileFile(file) == file.file
FilePath(file) == file.path

\* ---- async_fs/file.rs ----
\* File::error (async_fs/file.rs)
AsyncFileError(file, source, kind) == ErrorBuild(source, kind, file.path)

\* .await.map_err(|err| Error::build(err, kind, &self.path))
AsyncFileMapErr(file, outcome, kind) ==
    IF outcome.ok THEN outcome ELSE Err(ErrorBuild(outcome.err, kind, file.path))

AsyncFileSyncAll(file, outcome) == AsyncFileMapErr(file, outcome, "SyncFile")
AsyncFileSyncData(file, outcome) == AsyncFileMapErr(file, outcome, "SyncFile")
AsyncFileSetLen(file, outcome) == AsyncFileMapErr(file, outcome, "SetLen")
AsyncFileMetadata(file, outcome) == AsyncFileMapErr(file, outcome, "Metadata")

AsyncFileSetPermissions(file, outcome) ==
    AsyncFileMapErr(file, outcome, "SetPermissions")

\* Poll::Ready(ready!(poll).map_err(|err| self.error(err, kind))): a pending
\* poll returns Pending at once
PollReadyMapErr(file, p, kind) ==
    IF p.poll = "pending" THEN Pending
    ELSE Ready(IF p.res.ok THEN p.res
               ELSE Err(AsyncFileError(file, p.res.err, kind)))

AsyncFilePollRead(file, p) == PollReadyMapErr(file, p, "Read")
AsyncFilePollWrite(file, p) == PollReadyMapErr(file, p, "Write")
AsyncFilePollFlush(file, p) == PollReadyMapErr(file, p, "Flush")
\* A plausible slip: poll_close reported as the sync it ends with.
AsyncFilePollCloseAsSync(file, p) == PollReadyMapErr(file, p, "SyncFile")
AsyncFilePollClose(file, p) == PollReadyMapErr(file, p, "Flush")

\* poll_seek: Poll::map_err on the raw handle's poll
AsyncFilePollSeek(file, p) ==
    IF p.poll = "pending" THEN Pending
    ELSE Ready(IF p.res.ok THEN p.res
               ELSE Err(AsyncFileError(file, p.res.err, "Seek")))

\* File::into_parts, File::file, File::file_mut and File::path
\* (async_fs/file.rs)
AsyncFileIntoParts(file) == <<file.file, file.path>>
AsyncFileFile(file) == file.file
AsyncFileFileMut(file, raw) == [file EXCEPT !.file = raw]
AsyncFilePath(file) == file.path

(***************************************************************************)
(* SpecFile: a caller that opens Files and works on them while the world   *)
(* renames and removes files on disk.  A slot of files holds the File, and *)
(* beside it the path the caller gave when the File was constructed.  The  *)
(* caller makes one call at a time: last is the call that has returned and *)
(* whose result the caller has not yet taken.                              *)
(***************************************************************************)
FileApis == {"lib", "sync", "async"}
FileIds == 1..MaxFiles

FileTree ==
    [p \in Paths |-> CASE p = "a.txt" -> FileNode(<<1>>)
                       [] p = "b" -> Dir
                       [] OTHER -> Absent]

InitFile ==
    /\ fs = FileTree
    /\ files = NoFiles
    /\ dirs = NoDirs
    /\ last = NoCall

Slot(given, file) == [open |-> TRUE, handle |-> file, given |-> given]

FreeIds == {i \in FileIds : ~files[i].open}
NewId == CHOOSE i \in FreeIds : \A j \in FreeIds : i <= j

\* what a pending poll leaves in the place of a result
NoResult == [ok |-> FALSE, val |-> <<>>, err |-> NoErr]

\* the record of a call on a File: given is the path its File was given
HCall(op, api, id, via, given, ret) ==
    [op |-> op, api |-> api, id |-> id, via |-> via, given |-> given,
     poll |-> ret.poll, res |-> IF ret.poll = "ready" THEN ret.res ELSE NoResult]

OpenBy(api, tree, path, f) ==
    CASE api = "lib" -> LibFileOpen(tree, path, f)
      [] api = "sync" -> FileOpen(tree, path, f)
      [] api = "async" -> AsyncFileOpen(tree, path, f)

CreateBy(api, tree, path, f) ==
    CASE api = "lib" -> LibFileCreate(tree, path, f)
      [] api = "sync" -> FileCreate(tree, path, f)
      [] api = "async" -> AsyncFileCreate(tree, path, f)

FromPartsBy(api, raw, path) ==
    CASE api = "lib" -> LibFileFromParts(raw, path)
      [] api = "sync" -> FileFromParts(raw, path)
      [] api = "async" -> AsyncFileFromParts(raw, path)

\* the caller keeps the File a successful open or create returned
Opened(op, api, path, r) ==
    /\ last = NoCall
    /\ FreeIds # {}
    /\ fs' = r.tree
    /\ files' = IF r.res.ok
                THEN [files EXCEPT ![NewId] = Slot(path, r.res.val[1])]
                ELSE files
    /\ last' = HCall(op, api, NewId, "owned", path, Ready(r.res))
    /\ UNCHANGED dirs

CallOpen ==
    \E api \in FileApis, path \in Paths, f \in ProbeFaults :
        Opened("File::open", api, path, OpenBy(api, fs, path, f))

CallCreate ==
    \E api \in FileApis, path \in Paths, f \in ProbeFaults :
        Opened("File::create", api, path, CreateBy(api, fs, path, f))

\* File::from_parts on a raw handle the caller opened itself, under any path
CallFromParts ==
    \E api \in FileApis, path \in Paths, q \in Paths :
        /\ last = NoCall
        /\ FreeIds # {}
        /\ PlatformOpen(fs, q, NoFault).res.ok
        /\ LET raw == PlatformOpen(fs, q, NoFault).res.val[1]
               file == FromPartsBy(api, raw, path)
           IN /\ files' = [files EXCEPT ![NewId] = Slot(path, file)]
              /\ last' = HCall("from_parts", api, NewId, "owned", path,
                               Ready(Ok(<<file>>)))
        /\ UNCHANGED <<fs, dirs>>

\* a call that leaves the File as it is
OnHandle(id, op, via, ret) ==
    /\ last = NoCall
    /\ last' = HCall(op, files[id].handle.api, id, via, files[id].given, ret)
    /\ UNCHANGED <<fs, files, dirs>>

CallSyncAll ==
    \E id \in FileIds, f \in ProbeFaults :
        /\ files[id].open
        /\ LET file == files[id].handle
               o == PlatformFileOp(file.file, "sync_all", f)
           IN OnHandle(id, "sync_all", "owned",
                  Ready(CASE file.api = "lib" -> LibFileSyncAll(file, o)
                          [] file.api = "sync" -> FileSyncAll(file, o)
                          [] file.api = "async" -> AsyncFileSyncAll(file, o)))

CallSyncData ==
    \E id \in FileIds, f \in ProbeFaults :
        /\ files[id].open
        /\ LET file == files[id].handle
               o == PlatformFileOp(file.file, "sync_data", f)
           IN OnHandle(id, "sync_data", "owned",
                  Ready(CASE file.api = "lib" -> LibFileSyncData(file, o)
                          [] file.api = "sync" -> FileSyncData(file, o)
                          [] file.api = "async" -> AsyncFileSyncData(file, o)))

CallSetLen ==
    \E id \in FileIds, f \in ProbeFaults :
        /\ files[id].open
        /\ LET file == files[id].handle
               o == PlatformFileOp(file.file, "set_len", f)
           IN OnHandle(id, "set_len", "owned",
                  Ready(CASE file.api = "lib" -> LibFileSetLen(file, o)
                          [] file.api = "sync" -> FileSetLen(file, o)
                          [] file.api = "async" -> AsyncFileSetLen(file, o)))

CallMetadata ==
    \E id \in FileIds, f \in ProbeFaults :
        /\ files[id].open
        /\ LET file == files[id].handle
               o == PlatformFileOp(file.file, "metadata", f)
           IN OnHandle(id, "metadata", "owned",
                  Ready(CASE file.api = "lib" -> LibFileMetadata(file, o)
                          [] file.api = "sync" -> FileMetadata(file, o)
                          [] file.api = "async" -> AsyncFileMetadata(file, o)))

CallSetPermissions ==
    \E id \in FileIds, f \in ProbeFaults :
        /\ files[id].open
        /\ LET file == files[id].handle
               o == PlatformFileOp(file.file, "set_permissions", f)
           IN OnHandle(id, "set_permissions", "owned",
                  Ready(CASE file.api = "lib" -> LibFileSetPermissions(file, o)
                          [] file.api = "sync" -> FileSetPermissions(file, o)
                          [] file.api = "async" ->
                                 AsyncFileSetPermissions(file, o)))

\* File::try_clone (lib.rs, file.rs): the caller keeps the clone when it has
\* room for it
CallTryClone ==
    \E id \in FileIds, f \in ProbeFaults :
        /\ last = NoCall
        /\ files[id].open
        /\ files[id].handle.api \in {"lib", "sync"}
        /\ LET file == files[id].handle
               o == PlatformFileOp(file.file, "try_clone", f)
               r == IF file.api = "lib" THEN LibFileTryClone(file, o)
                    ELSE FileTryClone(file, o)
           IN /\ files' = IF r.ok /\ FreeIds # {}
                          THEN [files EXCEPT
                                   ![NewId] = Slot(files[id].given, r.val[1])]
                          ELSE files
              /\ last' = HCall("try_clone", file.api, id, "owned",
                               files[id].given, Ready(r))
        /\ UNCHANGED <<fs, dirs>>

\* the streaming calls: through File or &File on the synchronous Files, by a
\* poll that may find the raw handle not ready on the asynchronous one
Vias == {"owned", "borrowed"}

StreamCallOk(file, via, ready) ==
    IF file.api = "async" THEN via = "owned" ELSE ready

Polled(ready, o) == IF ready THEN Ready(o) ELSE Pending

\* the streaming methods of the synchronous Files, and the primitive of the
\* raw handle each of them calls
StreamOps == {"read", "read_vectored", "write", "write_vectored", "seek", "flush"}

StreamPrim(op) ==
    CASE op = "read_vectored" -> "read"
      [] op = "write_vectored" -> "write"
      [] OTHER -> op

\* the method op of File (via owned) or of &File (via borrowed), for the
\* outcome o of the primitive
LibStream(op, via, file, o) ==
    CASE op = "read" -> IF via = "owned" THEN LibFileOwnedRead(file, o)
                        ELSE LibFileRead(file, o)
      [] op = "read_vectored" ->
             IF via = "owned" THEN LibFileOwnedReadVectored(file, o)
             ELSE LibFileReadVectored(file, o)
      [] op = "write" -> IF via = "owned" THEN LibFileOwnedWrite(file, o)
                         ELSE LibFileWrite(file, o)
      [] op = "write_vectored" ->
             IF via = "owned" THEN LibFileOwnedWriteVectored(file, o)
             ELSE LibFileWriteVectored(file, o)
      [] op = "seek" -> IF via = "owned" THEN LibFileOwnedSeek(file, o)
                        ELSE LibFileSeek(file, o)
      [] op = "flush" -> IF via = "owned" THEN LibFileOwnedFlush(file, o)
                         ELSE LibFileFlush(file, o)

FileStream(op, via, file, o) ==
    CASE op = "read" -> IF via = "owned" THEN FileRead(file, o)
                        ELSE FileRefRead(file, o)
      [] op = "read_vectored" ->
             IF via = "owned" THEN FileReadVectored(file, o)
             ELSE FileRefReadVectored(file, o)
      [] op = "write" -> IF via = "owned" THEN FileWrite(file, o)
                         ELSE FileRefWrite(file, o)
      [] op = "write_vectored" ->
             IF via = "owned" THEN FileWriteVectored(file, o)
             ELSE FileRefWriteVectored(file, o)
      [] op = "seek" -> IF via = "owned" THEN FileSeek(file, o)
                        ELSE FileRefSeek(file, o)
      [] op = "flush" -> IF via = "owned" THEN FileFlush(file, o)
                         ELSE FileRefFlush(file, o)

StreamBy(op, via, file, o) ==
    IF file.api = "lib" THEN LibStream(op, via, file, o)
    ELSE FileStream(op, via, file, o)

\* the poll method of the asynchronous File for op
AsyncStream(op, file, p) ==
    CASE op = "read" -> AsyncFilePollRead(file, p)
      [] op = "write" -> AsyncFilePollWrite(file, p)
      [] op = "seek" -> AsyncFilePollSeek(file, p)
      [] op = "flush" -> AsyncFilePollFlush(file, p)

\* one streaming call: vectored only on the synchronous Files, the
\* asynchronous File has the poll methods alone
StreamCall(id, op, via, f, ready) ==
    /\ files[id].open
    /\ StreamCallOk(files[id].handle, via, ready)
    /\ op # StreamPrim(op) => files[id].handle.api # "async"
    /\ LET file == files[id].handle
           o == PlatformFileOp(file.file, StreamPrim(op), f)
       IN OnHandle(id, op, via,
              IF file.api = "async" THEN AsyncStream(op, file, Polled(ready, o))
              ELSE Ready(StreamBy(op, via, file, o)))

CallRead ==
    \E id \in FileIds, via \in Vias, f \in StreamFaults, ready \in BOOLEAN :
        StreamCall(id, "read", via, f, ready)

CallWrite ==
    \E id \in FileIds, via \in Vias, f \in StreamFaults, ready \in BOOLEAN :
        StreamCall(id, "write", via, f, ready)

\* read_vectored and write_vectored, taken by SpecStream only
CallReadVectored ==
    \E id \in FileIds, via \in Vias, f \in StreamFaults :
        StreamCall(id, "read_vectored", via, f, TRUE)

CallWriteVectored ==
    \E id \in FileIds, via \in Vias, f \in StreamFaults :
        StreamCall(id, "write_vectored", via, f, TRUE)

CallSeek ==
    \E id \in FileIds, via \in Vias, f \in StreamFaults, ready \in BOOLEAN :
        StreamCall(id, "seek", via, f, ready)

CallFlush ==
    \E id \in FileIds, via \in Vias, f \in StreamFaults, ready \in BOOLEAN :
        StreamCall(id, "flush", via, f, ready)

\* poll_close (async_fs/file.rs)
CallClose ==
    \E id \in FileIds, f \in StreamFaults, ready \in BOOLEAN :
        /\ files[id].open
        /\ files[id].handle.api = "async"
        /\ LET file == files[id].handle
               o == PlatformFileOp(file.file, "close", f)
           IN OnHandle(id, "close", "owned",
                       AsyncFilePollClose(file, Polled(ready, o)))

\* File::file
CallFile ==
    \E id \in FileIds :
        /\ files[id].open
        /\ LET file == files[id].handle
           IN OnHandle(id, "file", "borrowed",
                  Ready(Ok(<<CASE file.api = "lib" -> LibFileFile(file)
                               [] file.api = "sync" -> FileFile(file)
                               [] file.api = "async" -> AsyncFileFile(file)>>)))

\* File::path
CallPath ==
    \E id \in FileIds :
        /\ files[id].open
        /\ LET file == files[id].handle
           IN OnHandle(id, "path", "borrowed",
                  Ready(Ok(<<CASE file.api = "lib" -> LibFilePath(file)
                               [] file.api = "sync" -> FilePath(file)
                               [] file.api = "async" -> AsyncFilePath(file)>>)))

\* File::file_mut (async_fs/file.rs): the caller puts another raw handle, one
\* it opened itself, in the place of the File's
CallFileMut ==
    \E id \in FileIds, q \in Paths :
        /\ last = NoCall
        /\ files[id].open
        /\ files[id].handle.api = "async"
        /\ PlatformOpen(fs, q, NoFault).res.ok
        /\ LET raw == PlatformOpen(fs, q, NoFault).res.val[1]
               file == AsyncFileFileMut(files[id].handle, raw)
           IN /\ files' = [files EXCEPT ![id].handle = file]
              /\ last' = HCall("file_mut", "async", id, "owned", files[id].given,
                               Ready(Ok(<<raw>>)))
        /\ UNCHANGED <<fs, dirs>>

\* File::into_parts (async_fs/file.rs): the File is taken apart
CallIntoParts ==
    \E id \in FileIds :
        /\ last = NoCall
        /\ files[id].open
        /\ files[id].handle.api = "async"
        /\ files' = [files EXCEPT ![id] = NoHandle]
        /\ last' = HCall("into_parts", "async", id, "owned", files[id].given,
                         Ready(Ok(AsyncFileIntoParts(files[id].handle))))
        /\ UNCHANGED <<fs, dirs>>

\* the caller drops a File
DropFile ==
    \E id \in FileIds :
        /\ last = NoCall
        /\ files[id].open
        /\ files' = [files EXCEPT ![id] = NoHandle]
        /\ UNCHANGED <<fs, dirs, last>>

\* the caller takes the result of the call that returned
TakeResult ==
    /\ last # NoCall
    /\ last' = NoCall
    /\ UNCHANGED <<fs, files, dirs>>

\* somebody else renames a file or a directory on disk
DiskRename ==
    \E src \in Paths, dst \in Paths :
        /\ last = NoCall
        /\ src # dst
        /\ PlatformRename(fs, src, dst, NoFault).res.ok
        /\ fs' = PlatformRename(fs, src, dst, NoFault).tree
        /\ UNCHANGED <<files, dirs, last>>

\* somebody else removes a file on disk
DiskRemove ==
    \E p \in Paths :
        /\ last = NoCall
        /\ PlatformRemoveFile(fs, p, NoFault).res.ok
        /\ fs' = PlatformRemoveFile(fs, p, NoFault).tree
        /\ UNCHANGED <<files, dirs, last>>

NextFile ==
    \/ CallOpen
    \/ CallCreate
    \/ CallFromParts
    \/ CallSyncAll
    \/ CallSyncData
    \/ CallSetLen
    \/ CallMetadata
    \/ CallSetPermissions
    \/ CallTryClone
    \/ CallRead
    \/ CallWrite
    \/ CallSeek
    \/ CallFlush
    \/ CallClose
    \/ CallFile
    \/ CallPath
    \/ CallFileMut
    \/ CallIntoParts
    \/ DropFile
    \/ TakeResult
    \/ DiskRename
    \/ DiskRemove

SpecFile == InitFile /\ [][NextFile]_vars

(***************************************************************************)
(* Claims about the File (checked under SpecFile).                         *)
(***************************************************************************)
\* the calls made on a File that exists
HandleOps ==
    {"sync_all", "sync_data", "set_len", "metadata", "set_permissions",
     "try_clone", "read", "write", "seek", "flush", "close", "file", "file_mut",
     "path"}

\* File::path of whichever File
PathOf(file) ==
    CASE file.api = "lib" -> LibFilePath(file)
      [] file.api = "sync" -> FilePath(file)
      [] file.api = "async" -> AsyncFilePath(file)

\* the phrases a message of a File starts with
HandlePhrases ==
    {ErrorPhrase(k) : k \in ErrorKinds}
        \cup {"failed to synchronize file ", "failed to set length for file ",
              "failed to query metadata for file ",
              "failed to clone handle for file "}

\* the message of e is a phrase and then path, and nothing else, between
\* grave accents
NamesPath(e, path) ==
    \E phrase \in HandlePhrases : Message(e) = phrase \o GRAVE \o path \o GRAVE

\* the call on a File returned an error
HandleFailed == last.op \in HandleOps /\ last.poll = "ready" /\ ~last.res.ok

\* C9: whatever was called on a File, and whatever happened to the file on
\* disk, path() is the path the File was constructed with, and every error of
\* a call on the File names that path.
C9_PathNeverChanges ==
    /\ \A id \in FileIds :
           files[id].open => PathOf(files[id].handle) = files[id].given
    /\ last.op = "path" => last.res.val[1] = last.given
    /\ HandleFailed => NamesPath(last.res.err, last.given)

C9_Witness ==
    /\ files[1].open
    /\ files[1].given = "a.txt"
    /\ PathOf(files[1].handle) = "a.txt"
    /\ fs["a.txt"].type = "absent"
    /\ fs["b/c.txt"] = FileNode(<<1>>)
    /\ HandleFailed
    /\ last.op = "read"
    /\ Message(last.res.err) = "failed to read from file " \o GRAVE \o "a.txt" \o GRAVE

(***************************************************************************)
(* Directories.  The platform's ReadDir holds the directory it was opened  *)
(* on and the entries it has still to yield.                               *)
(***************************************************************************)
\* the directories read_dir may be called on: the working directory too
DirPaths == Paths \cup {Root}

\* the orders in which the platform may yield the members of S
RECURSIVE Perms(_)
Perms(S) ==
    IF S = {} THEN {<<>>}
    ELSE UNION {{<<x>> \o s : s \in Perms(S \ {x})} : x \in S}

Existing(tree, d) == {c \in Children(d) : tree[c].type # "absent"}

\* std::fs::read_dir, async_fs::read_dir
PlatformReadDir(tree, d, f, order) ==
    LET e == IF f # NoFault THEN f
             ELSE IF d = Root THEN NoErr
             ELSE IF ~Follow(tree, d, 0).ok THEN Follow(tree, d, 0).err
             ELSE IF tree[Follow(tree, d, 0).val[1]].type # "dir" THEN ENOTDIR
             ELSE NoErr
    IN [tree |-> tree,
        res |-> IF e # NoErr THEN Err(e)
                ELSE Ok(<<[dir |-> d, items |-> order]>>)]

\* Path::join of the directory given to read_dir and the name of a member
JoinPath(d, c) == IF d = Root THEN "./" \o c ELSE c

\* the platform's DirEntry: the directory it was read from, the member it
\* stands for and its full path
RawEntry(d, c) == [dir |-> d, node |-> c, path |-> JoinPath(d, c)]

\* the next item of the platform's ReadDir: an error when the platform raises
\* a fault, after which it goes on or has ended; None at the end; else the
\* next entry
PlatformReadDirNext(raw, f, ends) ==
    IF f # NoFault
    THEN [raw |-> IF ends THEN [raw EXCEPT !.items = <<>>] ELSE raw,
          item |-> Some(Err(f))]
    ELSE IF raw.items = <<>> THEN [raw |-> raw, item |-> None]
    ELSE [raw |-> [raw EXCEPT !.items = Tail(raw.items)],
          item |-> Some(Ok(<<RawEntry(raw.dir, Head(raw.items))>>))]

\* std::fs::DirEntry::metadata and file_type, and those of async_fs
PlatformEntryMetadata(tree, entry, f) ==
    IF f # NoFault THEN Err(f)
    ELSE IF LookupError(tree, entry.node) # NoErr
         THEN Err(LookupError(tree, entry.node))
    ELSE Ok(<<tree[entry.node].type>>)

\* ---- dir.rs ----
\* read_dir (dir.rs)
FsReadDir(tree, path, f, order) ==
    LET r == PlatformReadDir(tree, path, f, order)
    IN [tree |-> r.tree,
        prims |-> <<Prim("read_dir", r.res)>>,
        res |-> IF r.res.ok
                THEN Ok(<<[open |-> TRUE, api |-> "sync",
                           inner |-> r.res.val[1], path |-> PathBufFrom(path)]>>)
                ELSE Err(ErrorBuild(r.res.err, "ReadDir", path))]

\* A plausible slip: the error names the entry the iterator was about to yield.
ReadDirNextNamesEntry(rd, step) ==
    [rd |-> [rd EXCEPT !.inner = step.raw],
     item |-> IF ~step.item.some THEN None
              ELSE IF step.item.val.ok
                   THEN Some(Ok(<<[inner |-> step.item.val.val[1]]>>))
              ELSE Some(Err(ErrorBuild(step.item.val.err, "ReadDir",
                                       IF rd.inner.items = <<>> THEN rd.path
                                       ELSE Head(rd.inner.items))))]

\* A plausible slip: an error of the platform's iterator ends the iteration.
ReadDirNextErrAsEnd(rd, step) ==
    [rd |-> [rd EXCEPT !.inner = step.raw],
     item |-> IF ~step.item.some THEN None
              ELSE IF step.item.val.ok
                   THEN Some(Ok(<<[inner |-> step.item.val.val[1]]>>))
              ELSE None]

\* Iterator for ReadDir (dir.rs): next, given what the platform's next did
ReadDirNext(rd, step) ==
    [rd |-> [rd EXCEPT !.inner = step.raw],
     item |-> IF ~step.item.some THEN None
              ELSE IF step.item.val.ok
                   THEN Some(Ok(<<[inner |-> step.item.val.val[1]]>>))
              ELSE Some(Err(ErrorBuild(step.item.val.err, "ReadDir", rd.path)))]

\* DirEntry::path, DirEntry::metadata and DirEntry::file_type (dir.rs)
DirEntryPath(entry) == entry.inner.path

\* A plausible slip: the error names the directory the entry was read from.
DirEntryMetadataNamesDir(entry, outcome) ==
    IF outcome.ok THEN outcome
    ELSE Err(ErrorBuild(outcome.err, "Metadata", entry.inner.dir))

DirEntryMetadata(entry, outcome) ==
    IF outcome.ok THEN outcome
    ELSE Err(ErrorBuild(outcome.err, "Metadata", DirEntryPath(entry)))

DirEntryFileType(entry, outcome) ==
    IF outcome.ok THEN outcome
    ELSE Err(ErrorBuild(outcome.err, "Metadata", DirEntryPath(entry)))

\* ---- async_fs/read_dir.rs ----
\* read_dir (async_fs/read_dir.rs)
AsyncReadDir(tree, path, f, order) ==
    LET r == PlatformReadDir(tree, path, f, order)
    IN [tree |-> r.tree,
        prims |-> <<Prim("read_dir", r.res)>>,
        res |-> IF r.res.ok
                THEN Ok(<<[open |-> TRUE, api |-> "async",
                           inner |-> r.res.val[1], path |-> PathBufFrom(path)]>>)
                ELSE Err(ErrorBuild(r.res.err, "ReadDir", path))]

\* A plausible slip: an error of the platform's stream is taken for its end.
AsyncReadDirPollNextErrAsEnd(rd, ready, step) ==
    IF ~ready THEN [rd |-> rd, poll |-> "pending", item |-> None]
    ELSE [rd |-> [rd EXCEPT !.inner = step.raw],
          poll |-> "ready",
          item |-> IF ~step.item.some THEN None
                   ELSE IF step.item.val.ok
                        THEN Some(Ok(<<[inner |-> step.item.val.val[1]]>>))
                   ELSE None]

\* Stream for ReadDir (async_fs/read_dir.rs): poll_next; a pending poll of the
\* platform's stream returns Pending at once and takes nothing from it
AsyncReadDirPollNext(rd, ready, step) ==
    IF ~ready THEN [rd |-> rd, poll |-> "pending", item |-> None]
    ELSE [rd |-> [rd EXCEPT !.inner = step.raw],
          poll |-> "ready",
          item |-> IF ~step.item.some THEN None
                   ELSE IF step.item.val.ok
                        THEN Some(Ok(<<[inner |-> step.item.val.val[1]]>>))
                   ELSE Some(Err(ErrorBuild(step.item.val.err, "ReadDir",
                                            rd.path)))]

\* DirEntry::path, DirEntry::metadata and DirEntry::file_type
\* (async_fs/read_dir.rs)
AsyncDirEntryPath(entry) == entry.inner.path

AsyncDirEntryMetadata(entry, outcome) ==
    IF outcome.ok THEN outcome
    ELSE Err(ErrorBuild(outcome.err, "Metadata", AsyncDirEntryPath(entry)))

AsyncDirEntryFileType(entry, outcome) ==
    IF outcome.ok THEN outcome
    ELSE Err(ErrorBuild(outcome.err, "Metadata", AsyncDirEntryPath(entry)))

(***************************************************************************)
(* SpecDir: a caller that reads directories while the world removes and    *)
(* renames what is on disk.  A slot of dirs holds the ReadDir, the path    *)
(* the caller gave to read_dir and the entry the caller got last.          *)
(***************************************************************************)
DirApis == {"sync", "async"}
DirIds == 1..MaxDirs

DirTree ==
    [p \in Paths |-> CASE p = "a.txt" -> FileNode(<<1>>)
                       [] p = "b" -> Dir
                       [] OTHER -> FileNode(<<>>)]

InitDir ==
    /\ fs = DirTree
    /\ files = NoFiles
    /\ dirs = NoDirs
    /\ last = NoCall

\* over: poll_next on this ReadDir has returned Ready(None) or an error
DirSlot(given, rd) ==
    [open |-> TRUE, handle |-> rd, given |-> given, entry |-> None,
     over |-> FALSE]

\* an item that ends a stream that terminates on its first end or error
Terminal(item) == ~item.some \/ ~item.val.ok

FreeDirIds == {i \in DirIds : ~dirs[i].open}
NewDirId == CHOOSE i \in FreeDirIds : \A j \in FreeDirIds : i <= j

\* the record of a call: given is the directory read_dir was called on, item
\* what the call returned (None: the end of the iteration)
DCall(op, api, id, given, poll, item) ==
    [op |-> op, api |-> api, id |-> id, given |-> given, poll |-> poll,
     some |-> item.some, res |-> IF item.some THEN item.val ELSE NoResult]

ReadDirBy(api, tree, path, f, order) ==
    IF api = "sync" THEN FsReadDir(tree, path, f, order)
    ELSE AsyncReadDir(tree, path, f, order)

\* read_dir: the caller keeps the ReadDir a successful call returned when it
\* has room for it (id 0: it has none)
CallReadDir ==
    \E api \in DirApis, d \in DirPaths, f \in PathFaults :
        \E order \in Perms(Existing(fs, d)) :
            /\ last = NoCall
            /\ LET r == ReadDirBy(api, fs, d, f, order)
                   id == IF FreeDirIds # {} THEN NewDirId ELSE 0
               IN /\ dirs' = IF r.res.ok /\ id # 0
                             THEN [dirs EXCEPT ![id] = DirSlot(d, r.res.val[1])]
                             ELSE dirs
                  /\ last' = DCall("read_dir", api, id, d, "ready", Some(r.res))
            /\ UNCHANGED <<fs, files>>

\* the caller keeps the entry a call yielded
Yielded(slot, rd, item) ==
    [slot EXCEPT !.handle = rd,
                 !.entry = IF item.some /\ item.val.ok THEN Some(item.val.val[1])
                           ELSE slot.entry]

\* Iterator::next on a ReadDir of dir.rs
CallNext ==
    \E id \in DirIds, f \in ProbeFaults, ends \in BOOLEAN :
        /\ last = NoCall
        /\ dirs[id].open
        /\ dirs[id].handle.api = "sync"
        /\ f = NoFault => ends
        /\ LET rd == dirs[id].handle
               n == ReadDirNext(rd, PlatformReadDirNext(rd.inner, f, ends))
           IN /\ dirs' = [dirs EXCEPT ![id] = Yielded(dirs[id], n.rd, n.item)]
              /\ last' = DCall("next", "sync", id, dirs[id].given, "ready", n.item)
        /\ UNCHANGED <<fs, files>>

\* the record of a poll_next: after tells whether the stream had returned
\* Ready(None) or an error before this poll, raw is what the platform's
\* stream returned to it
PolledOn(call, after, raw) ==
    [op |-> call.op, api |-> call.api, id |-> call.id, given |-> call.given,
     poll |-> call.poll, some |-> call.some, res |-> call.res,
     after |-> after, raw |-> raw]

\* Stream::poll_next on a ReadDir of async_fs/read_dir.rs
CallPollNext ==
    \E id \in DirIds, f \in ProbeFaults, ends \in BOOLEAN, ready \in BOOLEAN :
        /\ last = NoCall
        /\ dirs[id].open
        /\ dirs[id].handle.api = "async"
        /\ (f = NoFault \/ ~ready) => ends
        /\ ~ready => f = NoFault
        /\ LET rd == dirs[id].handle
               n == AsyncReadDirPollNext(rd, ready,
                                         PlatformReadDirNext(rd.inner, f, ends))
               raw == IF ready
                      THEN Ready(PlatformReadDirNext(rd.inner, f, ends).item)
                      ELSE Pending
           IN /\ dirs' = [dirs EXCEPT ![id] =
                             [Yielded(dirs[id], n.rd, n.item) EXCEPT
                                 !.over = @ \/ (ready /\ Terminal(n.item))]]
              /\ last' = PolledOn(DCall("next", "async", id, dirs[id].given,
                                        n.poll, n.item),
                                  dirs[id].over, raw)
        /\ UNCHANGED <<fs, files>>

\* DirEntry::metadata on the entry the caller holds
CallEntryMetadata ==
    \E id \in DirIds, f \in ProbeFaults :
        /\ last = NoCall
        /\ dirs[id].open
        /\ dirs[id].entry.some
        /\ LET entry == dirs[id].entry.val
               o == PlatformEntryMetadata(fs, entry.inner, f)
           IN last' = DCall("DirEntry::metadata", dirs[id].handle.api, id,
                            dirs[id].given, "ready",
                            Some(IF dirs[id].handle.api = "sync"
                                 THEN DirEntryMetadata(entry, o)
                                 ELSE AsyncDirEntryMetadata(entry, o)))
        /\ UNCHANGED <<fs, files, dirs>>

\* DirEntry::file_type on the entry the caller holds
CallEntryFileType ==
    \E id \in DirIds, f \in ProbeFaults :
        /\ last = NoCall
        /\ dirs[id].open
        /\ dirs[id].entry.some
        /\ LET entry == dirs[id].entry.val
               o == PlatformEntryMetadata(fs, entry.inner, f)
           IN last' = DCall("DirEntry::file_type", dirs[id].handle.api, id,
                            dirs[id].given, "ready",
                            Some(IF dirs[id].handle.api = "sync"
                                 THEN DirEntryFileType(entry, o)
                                 ELSE AsyncDirEntryFileType(entry, o)))
        /\ UNCHANGED <<fs, files, dirs>>

\* DirEntry::path on the entry the caller holds
CallEntryPath ==
    \E id \in DirIds :
        /\ last = NoCall
        /\ dirs[id].open
        /\ dirs[id].entry.some
        /\ LET entry == dirs[id].entry.val
           IN last' = DCall("DirEntry::path", dirs[id].handle.api, id,
                            dirs[id].given, "ready",
                            Some(Ok(<<IF dirs[id].handle.api = "sync"
                                      THEN DirEntryPath(entry)
                                      ELSE AsyncDirEntryPath(entry)>>)))
        /\ UNCHANGED <<fs, files, dirs>>

\* the caller drops a ReadDir and the entry it got from it
DropReadDir ==
    \E id \in DirIds :
        /\ last = NoCall
        /\ dirs[id].open
        /\ dirs' = [dirs EXCEPT ![id] = NoHandle]
        /\ UNCHANGED <<fs, files, last>>

\* somebody else removes a directory and all it holds
DiskRemoveDirAll ==
    \E p \in Paths :
        /\ last = NoCall
        /\ PlatformRemoveDirAll(fs, p, NoFault).res.ok
        /\ fs' = PlatformRemoveDirAll(fs, p, NoFault).tree
        /\ UNCHANGED <<files, dirs, last>>

NextDir ==
    \/ CallReadDir
    \/ CallNext
    \/ CallPollNext
    \/ CallEntryMetadata
    \/ CallEntryFileType
    \/ CallEntryPath
    \/ DropReadDir
    \/ TakeResult
    \/ DiskRename
    \/ DiskRemove
    \/ DiskRemoveDirAll

SpecDir == InitDir /\ [][NextDir]_vars

(***************************************************************************)
(* Claims about directories (checked under SpecDir).                       *)
(***************************************************************************)
\* read_dir or a step of the iteration returned an error
ReadDirFailed ==
    /\ last.op \in {"read_dir", "next"}
    /\ last.poll = "ready"
    /\ last.some
    /\ ~last.res.ok

\* C10: every error of read_dir(d) and of the iteration over what it returned,
\* by the iterator or by the stream, has the ReadDir kind and the path d, and
\* so the message "failed to read directory " and d between grave accents.
C10_ReadDirErrorNamesDir ==
    ReadDirFailed =>
        /\ last.res.err.inner.ty = "Error"
        /\ last.res.err.inner.kind = "ReadDir"
        /\ PathsOf(last.res.err) = <<last.given>>
        /\ Message(last.res.err)
               = "failed to read directory " \o GRAVE \o last.given \o GRAVE

C10_Witness ==
    /\ ReadDirFailed
    /\ last.op = "next"
    /\ last.given = "b"
    /\ dirs[last.id].entry = Some([inner |-> RawEntry("b", "b/c.txt")])
    /\ PathsOf(last.res.err) = <<"b">>

\* the entry a call on a DirEntry was made on, and DirEntry::path of it
EntryOf(call) == dirs[call.id].entry.val

EntryPathOf(call) ==
    IF call.api = "sync" THEN DirEntryPath(EntryOf(call))
    ELSE AsyncDirEntryPath(EntryOf(call))

\* metadata or file_type of a DirEntry returned an error
EntryQueryFailed ==
    /\ last.op \in {"DirEntry::metadata", "DirEntry::file_type"}
    /\ ~last.res.ok

\* C11: a failing metadata() or file_type() of a DirEntry returns an error of
\* the Metadata kind whose path is the entry's own path(), the directory given
\* to read_dir joined with the entry's name, and not that directory.
C11_EntryErrorNamesEntry ==
    EntryQueryFailed =>
        /\ last.res.err.inner.ty = "Error"
        /\ last.res.err.inner.kind = "Metadata"
        /\ PathsOf(last.res.err) = <<EntryPathOf(last)>>
        /\ EntryPathOf(last)
               = JoinPath(last.given, EntryOf(last).inner.node)
        /\ PathsOf(last.res.err) # <<last.given>>

C11_Witness ==
    /\ EntryQueryFailed
    /\ last.op = "DirEntry::metadata"
    /\ last.api = "sync"
    /\ last.given = "b"
    /\ last.res.err.kind = "NotFound"
    /\ Message(last.res.err)
           = "failed to query metadata of file " \o GRAVE \o "b/c.txt" \o GRAVE

\* a poll_next of an asynchronous ReadDir has returned
PollNextReturned == last.op = "next" /\ last.api = "async"

\* C12 as claimed: once poll_next has returned Ready(None) or an error, no
\* later poll_next on the same stream returns another entry or another error.
C12_TerminatesOnFirstEndOrError ==
    (PollNextReturned /\ last.poll = "ready" /\ last.after) => ~last.some

\* what poll_next returns for what the platform's stream returned to it
Forwarded(raw, path) ==
    IF raw = Pending THEN [poll |-> "pending", some |-> FALSE, res |-> NoResult]
    ELSE IF ~raw.res.some
         THEN [poll |-> "ready", some |-> FALSE, res |-> NoResult]
    ELSE IF raw.res.val.ok
         THEN [poll |-> "ready", some |-> TRUE,
               res |-> Ok(<<[inner |-> raw.res.val.val[1]]>>)]
    ELSE [poll |-> "ready", some |-> TRUE,
          res |-> Err(IoErrorNew(raw.res.val.err.kind,
                                 [ty |-> "Error", kind |-> "ReadDir",
                                  source |-> raw.res.val.err, path |-> path]))]

\* C12 as amended: the asynchronous ReadDir keeps no end of its own.  Every
\* poll_next, before and after the stream has returned Ready(None) or an
\* error, returns what the platform's stream returned to that poll (Pending,
\* the end marker, the entry, or the error wrapped once with the ReadDir kind
\* and the directory's path): the stream ends when, and only when, the
\* platform's stream under it does.
C12_EndsAsThePlatformStream ==
    PollNextReturned =>
        [poll |-> last.poll, some |-> last.some, res |-> last.res]
            = Forwarded(last.raw, last.given)

C12_Witness ==
    /\ PollNextReturned
    /\ last.after
    /\ last.poll = "ready"
    /\ last.some
    /\ last.res.ok
    /\ last.raw = Ready(Some(Ok(<<EntryOf(last).inner>>)))

\* the i-th primitive of the call failed
PrimFailed(call, i) == ~call.prims[i].res.ok

\* the call ended at the failure of its last primitive and returned it
EndedAtFailure(call) ==
    /\ PrimFailed(call, Len(call.prims))
    /\ ~call.res.ok
    /\ SourceOfAny(call.res.err) = Some(FailedRaw(call))

GoesOnAfter(call, i) ==
    /\ call.api = "lib"
    /\ call.op \in WholeFileOps
    /\ \/ call.prims[i].prim = "metadata"
       \/ /\ call.prims[i].prim \in {"read", "write"}
          /\ IoErrorKind(call.prims[i].res.err) = "Interrupted"

Contextual(e) ==
    \/ e.ty = "LibError"
    \/ e.ty = "io" /\ e.inner.ty \in {"Error", "SourceDestError", "LibError"}

\* a contextual error whose cause is an error of the platform
WrappedOnce(e) ==
    /\ Contextual(e)
    /\ SourceOfAny(e).some
    /\ ~Contextual(SourceOfAny(e).val)

\* C14: every error a facade call returns is a contextual error wrapped
\* exactly once: its cause is the platform's raw error and never another
\* contextual error.
C14_WrappedOnce ==
    (last.op # "none" /\ ~last.res.ok) => WrappedOnce(last.res.err)

\* the error just built, had it been built with another raw error and kind
Rebuilt(source, kind) ==
    IF last.op = "Error::build"
    THEN ErrorBuild(source, kind, last.out.inner.path)
    ELSE SourceDestErrorBuild(source, kind, last.out.inner.from_path,
                              last.out.inner.to_path)

\* the kinds compiled in together with the kind of the error just built
KindsBeside(platform) ==
    IF last.op = "Error::build" THEN ErrorKindsOn(platform)
    ELSE SourceDestErrorKindsOn(platform)

RenderedKind == last.op \in {"Error::build", "SourceDestError::build"} /\ last.queried

\* C15: on each platform kind and message template are one to one: an error
\* of the same kind and path(s) renders the same message whatever it wraps,
\* and an error of another kind of that platform with the same path(s) never
\* renders the same message.
C15_KindTemplateOneToOne ==
    RenderedKind =>
        /\ \A source \in RawErrors :
               Render(Rebuilt(source, last.out.inner.kind)) = last.msg
        /\ \A platform \in Platforms :
               last.out.inner.kind \in KindsBeside(platform) =>
                   \A kind \in KindsBeside(platform) \ {last.out.inner.kind} :
                       Render(Rebuilt(last.source, kind)) # last.msg

\* an error of the Symlink kind, whose message the SymlinkFile kind of the
\* other platform would render too
C15_Witness ==
    /\ RenderedKind
    /\ last.out.inner.kind = "Symlink"
    /\ last.msg = "failed to symlink file from a.txt to b"
    /\ Render(Rebuilt(last.source, "SymlinkFile")) = last.msg

\* the phrases of the contextual errors of the calls that take one path
OnePathPhrases ==
    {ErrorPhrase(kind) : kind \in ErrorKinds} \cup {"failed to open file ",
                                                   "failed to create file ",
                                                   "failed to read from file ",
                                                   "failed to write to file "}

\* the call returned a contextual error
ContextualFailure ==
    last.op # "none" /\ ~last.res.ok /\ Contextual(last.res.err)

\* the path a contextual error of a one-path call carries (the crate root's
\* Error carries it in its message only)
CarriesPath(e, path) ==
    /\ \E phrase \in OnePathPhrases : Message(e) = Quoted(phrase, path)
    /\ (e.ty = "io" /\ e.inner.ty = "Error") => PathsOf(e) = <<path>>

NextStream ==
    \/ CallOpen
    \/ CallCreate
    \/ CallFromParts
    \/ CallRead
    \/ CallReadVectored
    \/ CallWrite
    \/ CallWriteVectored
    \/ CallSeek
    \/ CallFlush
    \/ DropFile
    \/ TakeResult

SpecStream == InitFile /\ [][NextStream]_vars

\* a streaming method of a synchronous File has returned
StreamReturned ==
    /\ last.op \in StreamOps
    /\ last.api \in {"lib", "sync"}
    /\ files[last.id].open

OtherVia(via) == IF via = "owned" THEN "borrowed" ELSE "owned"

\* the outcomes of the raw handle's primitive for which the call returns what
\* it returned
OutcomesBehind(call) ==
    {o \in {PlatformFileOp(files[call.id].handle.file, StreamPrim(call.op), f) :
                f \in StreamFaults} :
        StreamBy(call.op, call.via, files[call.id].handle, o) = call.res}

\* C17: for each of read, read_vectored, write, write_vectored, flush and
\* seek, and for the same outcome of the raw handle's primitive, the method of
\* File and the method of &File return the same result: the same value, or an
\* error of the same kind, path, message and classification.
C17_OwnedAsBorrowed ==
    StreamReturned =>
        /\ OutcomesBehind(last) # {}
        /\ \A o \in OutcomesBehind(last) :
               StreamBy(last.op, OtherVia(last.via), files[last.id].handle, o)
                   = last.res

C17_Witness ==
    /\ StreamReturned
    /\ last.op = "write_vectored"
    /\ last.api = "sync"
    /\ last.via = "borrowed"
    /\ ~last.res.ok
    /\ Classification(last.res.err) = "Uncategorized"
    /\ FileWriteVectored(files[last.id].handle, Err(EBADF)) = last.res

(***************************************************************************)
(* The functions of the crate root that PathExt calls.  read_dir is         *)
(* FsReadDir of dir.rs; metadata, symlink_metadata, canonicalize and       *)
(* read_link wrap the platform's function of the same name with the kind   *)
(* of that name and the path.                                              *)
(***************************************************************************)
FsWrap(name, r, kind, path) ==
    [tree |-> r.tree,
     prims |-> <<Prim(name, r.res)>>,
     res |-> IF r.res.ok THEN r.res ELSE Err(ErrorBuild(r.res.err, kind, path))]

FsMetadata(tree, path, f) ==
    FsWrap("metadata", PlatformMetadata(tree, path, f), "Metadata", path)

FsSymlinkMetadata(tree, path, f) ==
    FsWrap("symlink_metadata", PlatformSymlinkMetadata(tree, path, f),
           "SymlinkMetadata", path)

FsCanonicalize(tree, path, f) ==
    FsWrap("canonicalize", PlatformCanonicalize(tree, path, f),
           "Canonicalize", path)

FsReadLink(tree, path, f) ==
    FsWrap("read_link", PlatformReadLink(tree, path, f), "ReadLink", path)

\* ---- path.rs ----
\* A plausible slip: fs_err_metadata calls the function of the method below.
PathExtMetadataNoFollow(tree, path, f) == FsSymlinkMetadata(tree, path, f)

\* impl PathExt for Path: each method calls the crate root's function on self
PathExtMetadata(tree, path, f) == FsMetadata(tree, path, f)
PathExtSymlinkMetadata(tree, path, f) == FsSymlinkMetadata(tree, path, f)
PathExtCanonicalize(tree, path, f) == FsCanonicalize(tree, path, f)
PathExtReadLink(tree, path, f) == FsReadLink(tree, path, f)
PathExtReadDir(tree, path, f, order) == FsReadDir(tree, path, f, order)

(***************************************************************************)
(* SpecPath: one query of a path, by a PathExt method, by a function of    *)
(* the crate root or by a function of async_fs, on any tree, after         *)
(* somebody may have made a.txt a symbolic link to a file, to nothing or   *)
(* to itself.                                                              *)
(***************************************************************************)
PathOps == {"metadata", "symlink_metadata", "canonicalize", "read_link"}

\* the function op of one of the three: ext (PathExt), fs (the crate root),
\* async (async_fs)
QueryExt(op, tree, path, f) ==
    CASE op = "metadata" -> PathExtMetadata(tree, path, f)
      [] op = "symlink_metadata" -> PathExtSymlinkMetadata(tree, path, f)
      [] op = "canonicalize" -> PathExtCanonicalize(tree, path, f)
      [] op = "read_link" -> PathExtReadLink(tree, path, f)

QueryFs(op, tree, path, f) ==
    CASE op = "metadata" -> FsMetadata(tree, path, f)
      [] op = "symlink_metadata" -> FsSymlinkMetadata(tree, path, f)
      [] op = "canonicalize" -> FsCanonicalize(tree, path, f)
      [] op = "read_link" -> FsReadLink(tree, path, f)

QueryAsync(op, tree, path, f) ==
    CASE op = "metadata" -> AsyncMetadata(tree, path, f)
      [] op = "symlink_metadata" -> AsyncSymlinkMetadata(tree, path, f)
      [] op = "canonicalize" -> AsyncCanonicalize(tree, path, f)
      [] op = "read_link" -> AsyncReadLink(tree, path, f)

Query(op, api, tree, path, f) ==
    CASE api = "ext" -> QueryExt(op, tree, path, f)
      [] api = "fs" -> QueryFs(op, tree, path, f)
      [] api = "async" -> QueryAsync(op, tree, path, f)

\* the record of a query: fault is what the platform raised, order the order
\* in which it lists a directory
PCall(op, api, path, f, order, res) ==
    [op |-> op, api |-> api, p1 |-> path, fault |-> f, order |-> order,
     res |-> res]

CallPathExt ==
    \E op \in PathOps, path \in Arguments, f \in PathFaults :
        /\ last = NoCall
        /\ last' = PCall(op, "ext", path, f, <<>>, Query(op, "ext", fs, path, f).res)
        /\ UNCHANGED <<fs, files, dirs>>

CallFs ==
    \E op \in PathOps, path \in Arguments, f \in PathFaults :
        /\ last = NoCall
        /\ last' = PCall(op, "fs", path, f, <<>>, Query(op, "fs", fs, path, f).res)
        /\ UNCHANGED <<fs, files, dirs>>

CallAsyncFs ==
    \E op \in PathOps, path \in Arguments, f \in PathFaults :
        /\ last = NoCall
        /\ last' = PCall(op, "async", path, f, <<>>,
                         Query(op, "async", fs, path, f).res)
        /\ UNCHANGED <<fs, files, dirs>>

\* the directories of the tree a listing may be asked of
Listable(tree, d) == IF d \in Paths /\ tree[d].type = "dir" THEN Existing(tree, d) ELSE {}

CallPathExtReadDir ==
    \E path \in Arguments, f \in PathFaults :
        \E order \in Perms(Listable(fs, path)) :
            /\ last = NoCall
            /\ last' = PCall("read_dir", "ext", path, f, order,
                             PathExtReadDir(fs, path, f, order).res)
            /\ UNCHANGED <<fs, files, dirs>>

CallFsReadDir ==
    \E path \in Arguments, f \in PathFaults :
        \E order \in Perms(Listable(fs, path)) :
            /\ last = NoCall
            /\ last' = PCall("read_dir", "fs", path, f, order,
                             FsReadDir(fs, path, f, order).res)
            /\ UNCHANGED <<fs, files, dirs>>

\* somebody makes a.txt a symbolic link to something that is no directory
DiskSymlink ==
    \E original \in Paths :
        /\ last = NoCall
        /\ fs[original].type # "dir"
        /\ PlatformSymlink(fs, original, "a.txt", NoFault).res.ok
        /\ fs' = PlatformSymlink(fs, original, "a.txt", NoFault).tree
        /\ UNCHANGED <<files, dirs, last>>

InitPath ==
    /\ fs \in Trees
    /\ files = NoFiles
    /\ dirs = NoDirs
    /\ last = NoCall

NextPath ==
    \/ CallPathExt
    \/ CallFs
    \/ CallAsyncFs
    \/ CallPathExtReadDir
    \/ CallFsReadDir
    \/ DiskSymlink

SpecPath == InitPath /\ [][NextPath]_vars

\* the function of the crate root that a method of PathExt stands for, called
\* with the same path in the same tree and with the same answer of the platform
FreeFunction(call) ==
    IF call.op = "read_dir"
    THEN FsReadDir(fs, call.p1, call.fault, call.order).res
    ELSE Query(call.op, "fs", fs, call.p1, call.fault).res

PathExtReturned == last.op \in PathOps \cup {"read_dir"} /\ last.api = "ext"

\* C18: for every path, fs_err_metadata, fs_err_symlink_metadata,
\* fs_err_canonicalize, fs_err_read_link and fs_err_read_dir return what the
\* function of the crate root of the same name returns for that path in the
\* same tree: the same value, or an error of the same kind, path, message,
\* classification and source.
C18_PathExtAsFreeFunction ==
    PathExtReturned =>
        /\ last.res = FreeFunction(last)
        /\ ~last.res.ok =>
               /\ Message(last.res.err) = Message(FreeFunction(last).err)
               /\ Classification(last.res.err)
                      = Classification(FreeFunction(last).err)
               /\ PathsOf(last.res.err) = <<last.p1>>

\* fs_err_metadata of a dangling link fails where fs_err_symlink_metadata
\* would not
C18_Witness ==
    /\ PathExtReturned
    /\ last.op = "metadata"
    /\ last.p1 = "a.txt"
    /\ fs["a.txt"].type = "symlink"
    /\ ~last.res.ok
    /\ Message(last.res.err)
           = "failed to query metadata of file " \o GRAVE \o "a.txt" \o GRAVE
    /\ Query("symlink_metadata", "fs", fs, "a.txt", last.fault).res.ok

(***************************************************************************)
(* SpecMkdir: a program that makes directories, call after call, by        *)
(* create_dir, by create_dir_all and by a DirBuilder, on any tree.         *)
(***************************************************************************)
MaxCalls == 3     \* calls one program makes

MkdirOps == {"create_dir", "create_dir_all", "DirBuilder::create"}

\* does the call about to be made follow a create_dir_all of the same path
\* that succeeded, with nothing but create_dir_all of that path in between
Follows(path) ==
    /\ last.op = "create_dir_all"
    /\ last.p1 = path
    /\ (last.res.ok \/ last.streak > 0)

\* the record of a call: fault is what the platform raised, streak how many
\* create_dir_all of this path came right before it since one succeeded,
\* same whether the call left the tree as it was, n the number of the call
MCall(op, path, f, builder, r) ==
    [op |-> op, api |-> "async", p1 |-> path, fault |-> f,
     recursive |-> builder.recursive,
     pre |-> IF path \in Paths THEN fs[path] ELSE Absent,
     streak |-> IF op = "create_dir_all" /\ Follows(path)
                THEN last.streak + 1 ELSE 0,
     same |-> r.tree = fs,
     n |-> IF last.op = "none" THEN 1 ELSE last.n + 1,
     prims |-> r.prims, res |-> r.res]

MkdirStep(op, path, f, builder, r) ==
    /\ IF last.op = "none" THEN TRUE ELSE last.n < MaxCalls
    /\ last' = MCall(op, path, f, builder, r)
    /\ fs' = r.tree
    /\ UNCHANGED <<files, dirs>>

CallCreateDir ==
    \E path \in Arguments, f \in PathFaults :
        MkdirStep("create_dir", path, f, DirBuilderNew,
                  AsyncCreateDir(fs, path, f))

CallCreateDirAll ==
    \E path \in Arguments, f \in PathFaults :
        MkdirStep("create_dir_all", path, f,
                  DirBuilderRecursive(DirBuilderNew, TRUE),
                  AsyncCreateDirAll(fs, path, f))

CallDirBuilderCreate ==
    \E path \in Arguments, f \in PathFaults, recursive \in BOOLEAN :
        LET builder == DirBuilderRecursive(DirBuilderNew, recursive)
        IN MkdirStep("DirBuilder::create", path, f, builder,
                     DirBuilderCreate(builder, fs, path, f))

NextMkdir ==
    \/ CallCreateDir
    \/ CallCreateDirAll
    \/ CallDirBuilderCreate

SpecMkdir == Init /\ [][NextMkdir]_vars

CreateDirAllReturned == last.op = "create_dir_all"

\* C19: a create_dir_all(p) that follows a successful create_dir_all(p),
\* however many create_dir_all(p) lie between, leaves the tree unchanged and
\* succeeds unless the platform itself fails; and create_dir_all of a path
\* that is a directory already returns Ok and changes nothing.
C19_CreateDirAllIdempotent ==
    CreateDirAllReturned =>
        /\ last.streak > 0 =>
               /\ last.same
               /\ last.fault = NoFault => last.res.ok
        /\ (last.pre.type = "dir" /\ last.fault = NoFault) =>
               last.res.ok /\ last.same

\* the second repetition of a create_dir_all("b/c.txt") that made two
\* directories
C19_Witness ==
    /\ CreateDirAllReturned
    /\ last.p1 = "b/c.txt"
    /\ last.streak = 2
    /\ last.fault = NoFault
    /\ last.res.ok
    /\ last.same
    /\ fs["b"].type = "dir" /\ fs["b/c.txt"].type = "dir"

MkdirFailed == last.op \in MkdirOps /\ ~last.res.ok

\* C20: a failing create_dir, create_dir_all or DirBuilder::create, recursive
\* or not, returns an error of kind CreateDir that reads "failed to create
\* directory" with the caller's path quoted, and whose path is the caller's
\* path, whichever component the platform stumbled on.
C20_CreateDirErrorNamesPath ==
    MkdirFailed =>
        /\ last.res.err.ty = "io"
        /\ last.res.err.inner.ty = "Error"
        /\ last.res.err.inner.kind = "CreateDir"
        /\ PathsOf(last.res.err) = <<last.p1>>
        /\ Message(last.res.err)
               = Quoted("failed to create directory ", last.p1)

\* a DirBuilder that is not recursive finds no b to put b/c.txt into
C20_Witness ==
    /\ MkdirFailed
    /\ last.op = "DirBuilder::create"
    /\ ~last.recursive
    /\ last.p1 = "b/c.txt"
    /\ fs["b"].type = "absent"
    /\ SourceOfAny(last.res.err) = Some(ENOENT)
    /\ PathsOf(last.res.err) = <<"b/c.txt">>
    /\ Message(last.res.err)
           = "failed to create directory " \o GRAVE \o "b/c.txt" \o GRAVE

(***************************************************************************)
(* SpecIter: a caller that opens one directory of any tree, which nobody   *)
(* modifies, and iterates it.  The slot keeps, besides the ReadDir, the    *)
(* log of the iteration: for each item the platform's iterator gave, that  *)
(* item and what the wrapper returned for it.                              *)
(***************************************************************************)
MaxPolls == 4     \* items one iteration is asked for

IterSlot(given, rd) ==
    [open |-> TRUE, handle |-> rd, given |-> given, entry |-> None,
     over |-> FALSE, log |-> <<>>]

Logged(slot, raw, out) ==
    [slot EXCEPT !.log = Append(@, [raw |-> raw, out |-> out])]

IterReadDir ==
    \E api \in DirApis, d \in DirPaths, f \in PathFaults :
        \E order \in Perms(Listable(fs, d) \cup
                           (IF d = Root THEN Existing(fs, Root) ELSE {})) :
            /\ FreeDirIds = DirIds
            /\ LET r == ReadDirBy(api, fs, d, f, order)
               IN /\ dirs' = IF r.res.ok
                             THEN [dirs EXCEPT ![NewDirId] =
                                      IterSlot(d, r.res.val[1])]
                             ELSE dirs
                  /\ last' = DCall("read_dir", api, NewDirId, d, "ready",
                                   Some(r.res))
            /\ UNCHANGED <<fs, files>>

\* Iterator::next on the ReadDir of dir.rs
IterNext ==
    \E id \in DirIds, f \in ProbeFaults, ends \in BOOLEAN :
        /\ dirs[id].open
        /\ dirs[id].handle.api = "sync"
        /\ Len(dirs[id].log) < MaxPolls
        /\ f = NoFault => ends
        /\ LET rd == dirs[id].handle
               step == PlatformReadDirNext(rd.inner, f, ends)
               n == ReadDirNext(rd, step)
           IN /\ dirs' = [dirs EXCEPT ![id] =
                             Logged(Yielded(dirs[id], n.rd, n.item),
                                    step.item, n.item)]
              /\ last' = DCall("next", "sync", id, dirs[id].given, "ready", n.item)
        /\ UNCHANGED <<fs, files>>

\* Stream::poll_next on the ReadDir of async_fs/read_dir.rs; a pending poll
\* takes no item from the platform's stream
IterPollNext ==
    \E id \in DirIds, f \in ProbeFaults, ends \in BOOLEAN, ready \in BOOLEAN :
        /\ dirs[id].open
        /\ dirs[id].handle.api = "async"
        /\ Len(dirs[id].log) < MaxPolls
        /\ (f = NoFault \/ ~ready) => ends
        /\ ~ready => f = NoFault
        /\ LET rd == dirs[id].handle
               step == PlatformReadDirNext(rd.inner, f, ends)
               n == AsyncReadDirPollNext(rd, ready, step)
           IN /\ dirs' = [dirs EXCEPT ![id] =
                             IF ready
                             THEN Logged(Yielded(dirs[id], n.rd, n.item),
                                         step.item, n.item)
                             ELSE Yielded(dirs[id], n.rd, n.item)]
              /\ last' = DCall("next", "async", id, dirs[id].given, n.poll,
                               n.item)
        /\ UNCHANGED <<fs, files>>

NextIter ==
    \/ IterReadDir
    \/ IterNext
    \/ IterPollNext

SpecIter == Init /\ [][NextIter]_vars

\* the wrapper's item for an item of the platform: the end for the end, an
\* entry around the platform's entry, the ReadDir error of the directory
\* around the platform's error
ItemFor(raw, path) ==
    IF ~raw.some THEN None
    ELSE IF raw.val.ok THEN Some(Ok(<<[inner |-> raw.val.val[1]]>>))
    ELSE Some(Err(ErrorBuild(raw.val.err, "ReadDir", path)))

IsEntry(item) == item.some /\ item.val.ok
IsError(item) == item.some /\ ~item.val.ok

\* the positions of the log that hold an entry, and the child each stands for
EntriesAt(log) == {i \in DOMAIN log : IsEntry(log[i].out)}
ChildAt(log, i) == log[i].out.val.val[1].inner.node

\* an iteration that has reached the end without an error of the platform
RanToEnd(log) ==
    /\ log # <<>>
    /\ ~log[Len(log)].out.some
    /\ \A i \in DOMAIN log : ~IsError(log[i].out)

\* C21: in a directory nobody modifies, the ReadDir of read_dir returns one
\* item for each item of the platform's iterator, in the same order and
\* holding the same entry, end or error; the entries it yields are direct
\* children of the directory, none twice; and an iteration that reaches the
\* end (None) without an error has yielded every child before it.
C21_EveryChildOnce ==
    \A id \in DirIds :
        dirs[id].open =>
            LET log == dirs[id].log
                d == dirs[id].given
            IN /\ \A i \in DOMAIN log :
                      log[i].out = ItemFor(log[i].raw, d)
               /\ \A i \in EntriesAt(log) :
                      /\ ChildAt(log, i) \in Existing(fs, d)
                      /\ log[i].out.val.val[1].inner.path
                             = JoinPath(d, ChildAt(log, i))
                      /\ \A j \in EntriesAt(log) :
                             ChildAt(log, j) = ChildAt(log, i) => j = i
               /\ \A k \in DOMAIN log :
                      RanToEnd(SubSeq(log, 1, k)) =>
                          {ChildAt(log, i) : i \in EntriesAt(SubSeq(log, 1, k))}
                              = Existing(fs, d)

\* the working directory holds a.txt and b: the iteration has yielded both,
\* then None, and None again
C21_Witness ==
    /\ dirs[1].open
    /\ dirs[1].given = Root
    /\ Len(dirs[1].log) = 4
    /\ RanToEnd(SubSeq(dirs[1].log, 1, 3))
    /\ {ChildAt(dirs[1].log, i) : i \in EntriesAt(dirs[1].log)} = {"a.txt", "b"}
    /\ ~dirs[1].log[4].out.some

(***************************************************************************)
(* Claims about what a call returns for what its primitives returned       *)
(* (checked under Spec).                                                   *)
(***************************************************************************)
\* std's read_to_string, which the crate root's read_to_string delegates to,
\* refused the bytes it had read: every read went through (an interrupted
\* one was tried again) and the file does not hold UTF-8
RefusedUtf8(call) ==
    /\ call.op = "read_to_string"
    /\ call.api = "lib"
    /\ \A i \in 1..Len(call.prims) :
           PrimFailed(call, i) => GoesOnAfter(call, i)
    /\ call.p1 \in Paths
    /\ ~Utf8Valid(fs[call.p1].data)

\* what the call returns when nothing it delegates to fails: the File around
\* the raw handle of the open or create, the contents for a whole-file read,
\* and else the value of its one primitive
ValueFrom(call) ==
    CASE call.op \in {"File::open", "File::create"} ->
             <<[open |-> TRUE, api |-> call.api,
                file |-> call.prims[1].res.val[1],
                path |-> call.p1]>>
      [] call.api = "lib" /\ call.op \in {"read", "read_to_string"} ->
             fs[call.p1].data
      [] call.api = "lib" /\ call.op = "write" -> <<>>
      [] OTHER -> call.prims[1].res.val

NextOps ==
    \/ CallOpen
    \/ CallCreate
    \/ CallFromParts
    \/ CallSyncAll
    \/ CallSyncData
    \/ CallSetLen
    \/ CallMetadata
    \/ CallSetPermissions
    \/ CallTryClone
    \/ CallRead
    \/ CallReadVectored
    \/ CallWrite
    \/ CallWriteVectored
    \/ CallSeek
    \/ CallFlush
    \/ CallClose
    \/ DropFile
    \/ TakeResult

SpecOps == InitFile /\ [][NextOps]_vars

\* the kind that names what each call attempts
ActionKinds ==
    [op \in {"File::open", "File::create", "sync_all", "sync_data", "set_len",
             "metadata", "set_permissions", "try_clone", "read",
             "read_vectored", "write", "write_vectored", "seek", "flush"} |->
        CASE op = "File::open" -> "OpenFile"
          [] op = "File::create" -> "CreateFile"
          [] op \in {"sync_all", "sync_data"} -> "SyncFile"
          [] op = "set_len" -> "SetLen"
          [] op = "metadata" -> "Metadata"
          [] op = "set_permissions" -> "SetPermissions"
          [] op = "try_clone" -> "Clone"
          [] op \in {"read", "read_vectored"} -> "Read"
          [] op \in {"write", "write_vectored"} -> "Write"
          [] op = "seek" -> "Seek"
          [] op = "flush" -> "Flush"]

\* a call on a File of file.rs or of async_fs/file.rs, or the open or create
\* of one, returned an error
KindedFailure ==
    /\ last.op \in DOMAIN ActionKinds
    /\ last.api \in {"sync", "async"}
    /\ last.poll = "ready"
    /\ ~last.res.ok

\* C23: an error of File::open, File::create or a method of a File, of
\* file.rs or of async_fs/file.rs, has the kind of what was attempted: Read
\* for read and read_vectored, Write for write and write_vectored, Seek,
\* Flush, SyncFile for sync_all and sync_data, SetLen, Metadata,
\* SetPermissions, Clone for try_clone, OpenFile, CreateFile; so the two
\* Files give the same kind for the same method.
C23_KindMatchesAction ==
    KindedFailure =>
        /\ last.res.err.inner.ty = "Error"
        /\ last.res.err.inner.kind = ActionKinds[last.op]

\* set_len fails on a File of file.rs
C23_Witness ==
    /\ KindedFailure
    /\ last.op = "set_len"
    /\ last.api = "sync"
    /\ last.res.err.inner.kind = "SetLen"
    /\ Message(last.res.err)
           = "failed to set length of file " \o GRAVE \o last.given \o GRAVE

(***************************************************************************)
(* SpecRead: one whole-file read of the crate root, on any tree, for any   *)
(* answer of the platform to the open, to the metadata probe and to the    *)
(* reads, on a target of either width, built with or without overflow      *)
(* checks.                                                                 *)
(***************************************************************************)
WholeReads == {"read", "read_to_string"}

WholeRead(op, tree, path, fo, fm, fr) ==
    IF op = "read" THEN LibRead(tree, path, fo, fm, fr)
    ELSE LibReadToString(tree, path, fo, fm, fr)

\* the record of a whole-file read: fo, fm and fr are what the platform
\* raised at the open, the probe and the reads; capacity is what
\* initial_buffer_size came to, None when the open failed before it
RCall(op, path, fo, fm, fr, bits, capacity, r) ==
    [op |-> op, api |-> "lib", p1 |-> path, fo |-> fo, fm |-> fm, fr |-> fr,
     bits |-> bits, capacity |-> capacity, prims |-> r.prims,
     res |-> IF capacity.some /\ capacity.val.panic THEN NoResult ELSE r.res]

CallWholeRead ==
    \E op \in WholeReads, path \in Arguments, fo \in PathFaults,
       fm \in ProbeFaults, fr \in StreamFaults, bits \in Targets,
       checks \in BOOLEAN :
        /\ last = NoCall
        /\ LET r == WholeRead(op, fs, path, fo, fm, fr)
               opened == r.prims[1].res
               capacity ==
                   IF opened.ok
                   THEN Some(InitialBufferSize(
                                 PlatformFileLen(fs, opened.val[1], fm),
                                 bits, checks))
                   ELSE None
           IN last' = RCall(op, path, fo, fm, fr, bits, capacity, r)
        /\ UNCHANGED <<fs, files, dirs>>

NextRead ==
    \/ CallWholeRead
    \/ TakeResult

SpecRead == Init /\ [][NextRead]_vars

\* a whole-file read that got as far as the metadata probe
Probed == last.op \in WholeReads /\ last.capacity.some

\* C24: in read and read_to_string of the crate root the failure of the
\* metadata probe is never returned: the capacity is 0 when the probe fails
\* and the length of the file plus one when it succeeds, and with the same
\* contents and the same answers to the open and to the reads the call
\* returns the same bytes, or the same error, whatever the probe answered.
C24_ProbeFailureSwallowed ==
    Probed =>
        /\ last.capacity.val
               = IF last.fm = NoFault
                 THEN Capacity(Len(fs[last.p1].data) + 1)
                 ELSE Capacity(0)
        /\ \A fm \in ProbeFaults :
               WholeRead(last.op, fs, last.p1, last.fo, fm, last.fr).res
                   = last.res
        /\ ~last.res.ok =>
               /\ last.prims[Len(last.prims)].prim # "metadata"
               /\ Message(last.res.err)
                      # Quoted("failed to query metadata for file ", last.p1)

\* the probe fails and the read returns the two bytes of a.txt all the same
C24_Witness ==
    /\ Probed
    /\ last.op = "read"
    /\ last.p1 = "a.txt"
    /\ last.fm = EIO
    /\ last.prims[2] = Prim("metadata", Err(EIO))
    /\ last.capacity.val = Capacity(0)
    /\ last.res = Ok(<<1, 2>>)
    /\ WholeRead("read", fs, "a.txt", last.fo, NoFault, last.fr).res = Ok(<<1, 2>>)

(***************************************************************************)
(* SpecPoll: a task that opens a File and a ReadDir of async_fs and polls  *)
(* them.  A call is given the answers the platform's handle would give to  *)
(* the polls made on it, one after the other; the record of the call says  *)
(* how many of them it took.                                               *)
(***************************************************************************)
PollOps == {"read", "write", "flush", "close", "seek"}

\* the poll method of the File for op, given one answer of the raw handle
AsyncPollBy(op, file, p) ==
    IF op = "close" THEN AsyncFilePollClose(file, p) ELSE AsyncStream(op, file, p)

\* the first answer that is ready, the last one when none is
RECURSIVE FirstReady(_, _)
FirstReady(answers, i) ==
    IF i = Len(answers) \/ answers[i].poll = "ready" THEN i
    ELSE FirstReady(answers, i + 1)

\* A plausible slip: a raw handle that is not ready is polled again.
AsyncFilePollAgain(op, file, answers) ==
    [ret |-> AsyncPollBy(op, file, answers[FirstReady(answers, 1)]),
     polled |-> FirstReady(answers, 1)]

\* poll_read, poll_write, poll_flush, poll_close and poll_seek
\* (async_fs/file.rs): one poll of the raw handle, and its answer mapped
AsyncFilePoll(op, file, answers) ==
    [ret |-> AsyncPollBy(op, file, answers[1]), polled |-> 1]

\* poll_next (async_fs/read_dir.rs): one poll of the platform's stream; an
\* answer is Pending or Ready with the step the stream made
AsyncReadDirPoll(rd, answers) ==
    [ret |-> AsyncReadDirPollNext(rd, answers[1].poll = "ready",
                                  IF answers[1].poll = "ready" THEN answers[1].res
                                  ELSE [raw |-> rd.inner, item |-> None]),
     polled |-> 1]

\* the answers a raw File handle may give to the polls of one call
FileAnswers(raw, op) ==
    LET one == {Pending} \cup {Ready(PlatformFileOp(raw, op, f)) : f \in StreamFaults}
    IN {<<a, b>> : a \in one, b \in one}

\* the answers the platform's ReadDir may give to the polls of one call
DirAnswers(raw) ==
    LET one == {Pending} \cup {Ready(PlatformReadDirNext(raw, f, TRUE)) :
                                   f \in ProbeFaults}
    IN {<<a, b>> : a \in one, b \in one}

PollOpen ==
    \E path \in Paths, f \in ProbeFaults, create \in BOOLEAN :
        /\ FreeIds = FileIds
        /\ LET r == IF create THEN AsyncFileCreate(fs, path, f)
                    ELSE AsyncFileOpen(fs, path, f)
           IN /\ fs' = r.tree
              /\ files' = IF r.res.ok
                          THEN [files EXCEPT ![NewId] = Slot(path, r.res.val[1])]
                          ELSE files
              /\ last' = HCall(IF create THEN "File::create" ELSE "File::open",
                               "async", NewId, "owned", path, Ready(r.res))
        /\ UNCHANGED dirs

PollReadDir ==
    \E d \in DirPaths, f \in PathFaults :
        \E order \in Perms(Listable(fs, d) \cup
                           (IF d = Root THEN Existing(fs, Root) ELSE {})) :
            /\ FreeDirIds = DirIds
            /\ LET r == AsyncReadDir(fs, d, f, order)
               IN /\ dirs' = IF r.res.ok
                             THEN [dirs EXCEPT ![NewDirId] = DirSlot(d, r.res.val[1])]
                             ELSE dirs
                  /\ last' = DCall("read_dir", "async", NewDirId, d, "ready",
                                   Some(r.res))
            /\ UNCHANGED <<fs, files>>

\* one of the poll methods of the File
PollFile ==
    \E id \in FileIds, op \in PollOps :
        /\ files[id].open
        /\ \E answers \in FileAnswers(files[id].handle.file, op) :
               LET n == AsyncFilePoll(op, files[id].handle, answers)
               IN last' = [op |-> "poll_" \o op, api |-> "async", id |-> id,
                           given |-> files[id].given, answers |-> answers,
                           polled |-> n.polled, poll |-> n.ret.poll,
                           res |-> IF n.ret.poll = "ready" THEN n.ret.res
                                   ELSE NoResult]
        /\ UNCHANGED <<fs, files, dirs>>

\* poll_next of the ReadDir
PollDir ==
    \E id \in DirIds :
        /\ dirs[id].open
        /\ \E answers \in DirAnswers(dirs[id].handle.inner) :
               LET n == AsyncReadDirPoll(dirs[id].handle, answers)
               IN /\ dirs' = [dirs EXCEPT ![id] =
                                 Yielded(dirs[id], n.ret.rd, n.ret.item)]
                  /\ last' = [op |-> "poll_next", api |-> "async", id |-> id,
                              given |-> dirs[id].given, answers |-> answers,
                              polled |-> n.polled, poll |-> n.ret.poll,
                              some |-> n.ret.item.some,
                              res |-> IF n.ret.item.some THEN n.ret.item.val
                                      ELSE NoResult]
        /\ UNCHANGED <<fs, files>>

NextPoll ==
    \/ PollOpen
    \/ PollReadDir
    \/ PollFile
    \/ PollDir

SpecPoll == InitFile /\ [][NextPoll]_vars

FilePolled == last.op \in {"poll_" \o op : op \in PollOps}
DirPolled == last.op = "poll_next"

\* C25: poll_read, poll_write, poll_flush, poll_close, poll_seek and
\* poll_next poll the platform's handle once; they return Pending exactly
\* when that poll returned Pending, and then no error exists; they return the
\* platform's value when it is ready with one, and a contextual error around
\* the platform's error exactly when it is ready with an error.
C25_PendingAsThePrimitive ==
    (FilePolled \/ DirPolled) =>
        LET raw == last.answers[1]
        IN /\ last.polled = 1
           /\ last.poll = "pending" <=> raw.poll = "pending"
           /\ last.poll = "pending" => last.res = NoResult
           /\ (FilePolled /\ last.poll = "ready") =>
                  /\ raw.res.ok => last.res = raw.res
                  /\ ~raw.res.ok =>
                         /\ ~last.res.ok
                         /\ Contextual(last.res.err)
                         /\ SourceOfAny(last.res.err) = Some(raw.res.err)
           /\ (DirPolled /\ last.poll = "ready") =>
                  /\ last.some = raw.res.item.some
                  /\ last.some =>
                         /\ last.res.ok = raw.res.item.val.ok
                         /\ ~last.res.ok =>
                                /\ Contextual(last.res.err)
                                /\ SourceOfAny(last.res.err)
                                       = Some(raw.res.item.val.err)

\* poll_write finds the raw handle not ready, though it would be ready with
\* an error at the next poll
C25_Witness ==
    /\ FilePolled
    /\ last.op = "poll_write"
    /\ last.answers[1] = Pending
    /\ last.answers[2] = Ready(Err(EIO))
    /\ last.poll = "pending"
    /\ last.polled = 1
    /\ last.res = NoResult

(***************************************************************************)
(* SpecOpen: the calls that hand out a handle.  std::fs::OpenOptions and   *)
(* async_fs::OpenOptions are the flags their setters leave; the wrappers   *)
(* of open_options.rs hold one and forward every setter to it.             *)
(***************************************************************************)
OpenFlags(read, write, append, truncate, create, create_new) ==
    [read |-> read, write |-> write, append |-> append, truncate |-> truncate,
     create |-> create, create_new |-> create_new]

\* OpenOptions::new(), and what a program makes of it with the setters
OpenOptionsNew == OpenFlags(FALSE, FALSE, FALSE, FALSE, FALSE, FALSE)
OptionSets ==
    {OpenOptionsNew,
     OpenFlags(TRUE, FALSE, FALSE, FALSE, FALSE, FALSE),
     OpenFlags(FALSE, TRUE, FALSE, FALSE, TRUE, FALSE),
     OpenFlags(FALSE, TRUE, FALSE, FALSE, FALSE, TRUE),
     OpenFlags(TRUE, TRUE, FALSE, TRUE, FALSE, FALSE),
     OpenFlags(TRUE, FALSE, FALSE, FALSE, TRUE, FALSE)}

\* the flags std refuses before it asks the platform
BadFlags(o) ==
    \/ ~o.read /\ ~o.write /\ ~o.append
    \/ ~o.write /\ ~o.append /\ (o.create \/ o.truncate \/ o.create_new)
    \/ o.append /\ o.truncate /\ ~o.create_new

\* std::fs::OpenOptions::open, async_fs::OpenOptions::open
PlatformOpenWith(tree, o, p, f) ==
    LET e == IF BadFlags(o) THEN EINVAL
             ELSE IF f # NoFault THEN f
             ELSE IF ParentType(tree, p) = "file" THEN ENOTDIR
             ELSE IF ParentType(tree, p) = "absent" THEN ENOENT
             ELSE IF tree[p].type = "absent" /\ ~o.create /\ ~o.create_new THEN ENOENT
             ELSE IF tree[p].type # "absent" /\ o.create_new THEN EEXIST
             ELSE IF tree[p].type = "dir" /\ (o.write \/ o.append) THEN EISDIR
             ELSE NoErr
    IN IF e # NoErr THEN [tree |-> tree, res |-> Err(e)]
       ELSE [tree |-> IF tree[p].type = "absent" \/ (tree[p].type = "file" /\ o.truncate)
                      THEN [tree EXCEPT ![p] = FileNode(<<>>)]
                      ELSE tree,
             res |-> Ok(<<RawFile(p, o.read, o.write \/ o.append)>>)]

\* A plausible slip: the handle keeps the path the platform resolved.
FileFromOptionsResolved(tree, path, options, f) ==
    LET r == PlatformOpenWith(tree, options, path, f)
    IN [tree |-> r.tree,
        prims |-> <<Prim("OpenOptions::open", r.res)>>,
        res |-> IF r.res.ok
                THEN Ok(<<FileFromParts(r.res.val[1], JoinPath(Root, path))>>)
                ELSE Err(ErrorBuild(r.res.err, "OpenFile", path))]

\* File::from_options (file.rs)
FileFromOptions(tree, path, options, f) ==
    LET r == PlatformOpenWith(tree, options, path, f)
    IN [tree |-> r.tree,
        prims |-> <<Prim("OpenOptions::open", r.res)>>,
        res |-> IF r.res.ok THEN Ok(<<FileFromParts(r.res.val[1], path)>>)
                ELSE Err(ErrorBuild(r.res.err, "OpenFile", path))]

\* the wrappers: OpenOptions(fs::OpenOptions), and that of async_fs
OpenOptionsOf(flags) == [inner |-> flags]

\* OpenOptions::open (open_options.rs)
OpenOptionsOpen(tree, self, path, f) == FileFromOptions(tree, path, self.inner, f)

\* OpenOptions::open (async_fs/open_options.rs)
AsyncOpenOptionsOpen(tree, self, path, f) ==
    LET r == PlatformOpenWith(tree, self.inner, path, f)
    IN [tree |-> r.tree,
        prims |-> <<Prim("OpenOptions::open", r.res)>>,
        res |-> IF r.res.ok THEN Ok(<<AsyncFileFromParts(r.res.val[1], path)>>)
                ELSE Err(ErrorBuild(r.res.err, "OpenFile", path))]

\* the record of a call that hands out a handle: what the primitive
\* answered beside what the caller got
OCall(op, api, id, given, r) ==
    [op |-> op, api |-> api, id |-> id, given |-> given,
     prim |-> r.prims[1].res, res |-> r.res]

HandedOut(op, api, path, r) ==
    /\ last = NoCall
    /\ FreeIds # {}
    /\ fs' = r.tree
    /\ files' = IF r.res.ok
                THEN [files EXCEPT ![NewId] = Slot(path, r.res.val[1])]
                ELSE files
    /\ last' = OCall(op, api, NewId, path, r)
    /\ UNCHANGED dirs

OpenApis == {"sync", "async"}

OpenFileOpen ==
    \E api \in OpenApis, path \in Arguments, f \in ProbeFaults :
        HandedOut("File::open", api, path, OpenBy(api, fs, path, f))

OpenFileCreate ==
    \E api \in OpenApis, path \in Arguments, f \in ProbeFaults :
        HandedOut("File::create", api, path, CreateBy(api, fs, path, f))

OpenFromOptions ==
    \E path \in Arguments, f \in ProbeFaults, flags \in OptionSets :
        HandedOut("File::from_options", "sync", path,
                  FileFromOptions(fs, path, flags, f))

OpenWithOptions ==
    \E api \in OpenApis, path \in Arguments, f \in ProbeFaults,
       flags \in OptionSets :
        HandedOut("OpenOptions::open", api, path,
                  IF api = "sync"
                  THEN OpenOptionsOpen(fs, OpenOptionsOf(flags), path, f)
                  ELSE AsyncOpenOptionsOpen(fs, OpenOptionsOf(flags), path, f))

OpenReadDir ==
    \E api \in OpenApis, d \in DirPaths, f \in ProbeFaults :
        \E order \in Perms(Listable(fs, d) \cup
                           (IF d = Root THEN Existing(fs, Root) ELSE {})) :
            /\ last = NoCall
            /\ FreeDirIds # {}
            /\ LET r == ReadDirBy(api, fs, d, f, order)
               IN /\ dirs' = IF r.res.ok
                             THEN [dirs EXCEPT ![NewDirId] = DirSlot(d, r.res.val[1])]
                             ELSE dirs
                  /\ last' = OCall("read_dir", api, NewDirId, d, r)
            /\ UNCHANGED <<fs, files>>

NextOpen ==
    \/ OpenFileOpen
    \/ OpenFileCreate
    \/ OpenFromOptions
    \/ OpenWithOptions
    \/ OpenReadDir
    \/ DropFile
    \/ TakeResult

SpecOpen == InitFile /\ [][NextOpen]_vars

OpenStyles ==
    {"File::open", "File::create", "File::from_options", "OpenOptions::open"}

\* the slot the call would have filled
SlotOf(call) == IF call.op = "read_dir" THEN dirs[call.id] ELSE files[call.id]

\* C26: File::open, File::create, File::from_options, OpenOptions::open and
\* read_dir, of the crate and of async_fs, return a handle exactly when the
\* platform's call succeeded.  After a failure there is no handle and the
\* error is the contextual one around the platform's, naming the path that
\* was passed; after a success the handle holds the platform's handle and
\* the path that was passed, as it was passed.
C26_HandleIffPrimitiveOk ==
    (last.op \in OpenStyles \cup {"read_dir"} /\ "prim" \in DOMAIN last) =>
        /\ last.res.ok <=> last.prim.ok
        /\ SlotOf(last).open <=> last.prim.ok
        /\ ~last.res.ok =>
               /\ Contextual(last.res.err)
               /\ SourceOfAny(last.res.err) = Some(last.prim.err)
               /\ PathsOf(last.res.err) = <<last.given>>
        /\ last.res.ok =>
               /\ SlotOf(last).handle = last.res.val[1]
               /\ last.res.val[1].path = last.given
               /\ IF last.op = "read_dir"
                  THEN last.res.val[1].inner = last.prim.val[1]
                  ELSE last.res.val[1].file = last.prim.val[1]

\* OpenOptions::open creates b/c.txt and the handle keeps the relative path
\* as it was written
C26_Witness ==
    /\ last.op = "OpenOptions::open"
    /\ "prim" \in DOMAIN last
    /\ last.given = "b/c.txt"
    /\ last.res.ok
    /\ files[last.id].handle.path = "b/c.txt"
    /\ fs["b/c.txt"] = FileNode(<<>>)

(***************************************************************************)
(* SpecRetry: a program that goes on using a File and a ReadDir after a    *)
(* call on them failed.  The record of a call holds the platform's answer  *)
(* to it and, under before, the call made on the same handle just before.  *)
(***************************************************************************)
RetryOps == {"read", "read_vectored", "write", "write_vectored", "seek", "flush"}

NoneBefore == [op |-> "none", res |-> NoResult]

\* the call just made on handle id, if the last call was one
Before(ops, id) ==
    IF last.op \in ops /\ "before" \in DOMAIN last
    THEN IF last.id = id THEN [op |-> last.op, res |-> last.res] ELSE NoneBefore
    ELSE NoneBefore

RCallOn(op, via, id, given, before, answer, res) ==
    [op |-> op, via |-> via, id |-> id, given |-> given, before |-> before,
     answer |-> answer, res |-> res]

RetryOpen ==
    \E path \in Paths, f \in ProbeFaults, create \in BOOLEAN :
        /\ FreeIds = FileIds
        /\ LET r == IF create THEN FileCreate(fs, path, f) ELSE FileOpen(fs, path, f)
           IN /\ fs' = r.tree
              /\ files' = IF r.res.ok
                          THEN [files EXCEPT ![NewId] = Slot(path, r.res.val[1])]
                          ELSE files
              /\ last' = HCall(IF create THEN "File::create" ELSE "File::open",
                               "sync", NewId, "owned", path, Ready(r.res))
        /\ UNCHANGED dirs

RetryReadDir ==
    \E d \in DirPaths, f \in ProbeFaults :
        \E order \in Perms(Listable(fs, d) \cup
                           (IF d = Root THEN Existing(fs, Root) ELSE {})) :
            /\ FreeDirIds = DirIds
            /\ LET r == FsReadDir(fs, d, f, order)
               IN /\ dirs' = IF r.res.ok
                             THEN [dirs EXCEPT ![NewDirId] = DirSlot(d, r.res.val[1])]
                             ELSE dirs
                  /\ last' = DCall("read_dir", "sync", NewDirId, d, "ready",
                                   Some(r.res))
            /\ UNCHANGED <<fs, files>>

\* A plausible slip: a File that remembers its failure and answers with it
\* again instead of asking the platform.
RetryFileOpSticky ==
    \E id \in FileIds, op \in RetryOps, via \in Vias, f \in StreamFaults :
        /\ files[id].open
        /\ LET file == files[id].handle
               o == PlatformFileOp(file.file, StreamPrim(op), f)
               before == Before(RetryOps, id)
           IN last' = RCallOn(op, via, id, files[id].given, before, o,
                              IF before.op # "none" /\ ~before.res.ok
                              THEN before.res
                              ELSE FileStream(op, via, file, o))
        /\ UNCHANGED <<fs, files, dirs>>

\* read, read_vectored, write, write_vectored, seek and flush of File and of
\* &File (file.rs): the raw handle is asked and its error mapped; the File
\* is left as it was
RetryFileOp ==
    \E id \in FileIds, op \in RetryOps, via \in Vias, f \in StreamFaults :
        /\ files[id].open
        /\ LET file == files[id].handle
               o == PlatformFileOp(file.file, StreamPrim(op), f)
           IN last' = RCallOn(op, via, id, files[id].given,
                              Before(RetryOps, id), o,
                              FileStream(op, via, file, o))
        /\ UNCHANGED <<fs, files, dirs>>

\* next of ReadDir (dir.rs)
RetryNext ==
    \E id \in DirIds, f \in ProbeFaults, ends \in BOOLEAN :
        /\ dirs[id].open
        /\ f = NoFault => ends
        /\ LET rd == dirs[id].handle
               step == PlatformReadDirNext(rd.inner, f, ends)
               n == ReadDirNext(rd, step)
           IN /\ dirs' = [dirs EXCEPT ![id] = Yielded(dirs[id], n.rd, n.item)]
              /\ last' = RCallOn("next", "owned", id, dirs[id].given,
                                 Before({"next"}, id), step.item, n.item)
        /\ UNCHANGED <<fs, files>>

NextRetry ==
    \/ RetryOpen
    \/ RetryReadDir
    \/ RetryFileOp
    \/ RetryNext

SpecRetry == InitFile /\ [][NextRetry]_vars

Retried == last.op \in RetryOps \cup {"next"} /\ "before" \in DOMAIN last

\* the call before, on the same handle, failed
AfterFailure ==
    /\ Retried
    /\ last.before.op # "none"
    /\ IF last.op = "next" THEN last.before.res.some /\ ~last.before.res.val.ok
       ELSE ~last.before.res.ok

\* C27: what a call on a File or a ReadDir returns after a call on the same
\* handle has failed is what the platform answered to this call: the
\* platform's value when it succeeded, and when it failed a new contextual
\* error around the platform's error, of this call's kind and with the
\* handle's path; the handle is as it was opened.
C27_ErrorsNotSticky ==
    AfterFailure =>
        IF last.op = "next"
        THEN /\ last.res = ItemFor(last.answer, last.given)
             /\ dirs[last.id].open
             /\ dirs[last.id].handle.path = last.given
        ELSE /\ last.answer.ok => last.res = last.answer
             /\ ~last.answer.ok =>
                    last.res = Err(ErrorBuild(last.answer.err, ActionKinds[last.op],
                                              last.given))
             /\ files[last.id] = Slot(last.given, files[last.id].handle)
             /\ files[last.id].handle.path = last.given

\* a read fails with an I/O error, and the seek after it succeeds
C27_Witness ==
    /\ AfterFailure
    /\ last.op = "seek"
    /\ last.before.op = "read"
    /\ SourceOfAny(last.before.res.err) = Some(EIO)
    /\ last.res = Ok(<<1>>)

(***************************************************************************)
(* SpecClone: a program that clones a File and uses the clone beside the   *)
(* original.  The clone belongs to the caller: it is in the record of the  *)
(* try_clone that made it and of every call made on it since.              *)
(***************************************************************************)
CloneApis == {"lib", "sync"}

TryCloneBy(file, o) ==
    IF file.api = "lib" THEN LibFileTryClone(file, o) ELSE FileTryClone(file, o)

CloneOpen ==
    \E api \in CloneApis, path \in Paths, f \in ProbeFaults, create \in BOOLEAN :
        /\ FreeIds = FileIds
        /\ LET r == IF create THEN CreateBy(api, fs, path, f)
                    ELSE OpenBy(api, fs, path, f)
           IN /\ fs' = r.tree
              /\ files' = IF r.res.ok
                          THEN [files EXCEPT ![NewId] = Slot(path, r.res.val[1])]
                          ELSE files
              /\ last' = HCall(IF create THEN "File::create" ELSE "File::open",
                               api, NewId, "owned", path, Ready(r.res))
        /\ UNCHANGED dirs

\* File::try_clone (file.rs, lib.rs) on an open File
CloneTryClone ==
    \E id \in FileIds, f \in ProbeFaults :
        /\ files[id].open
        /\ LET file == files[id].handle
               o == PlatformFileOp(file.file, "try_clone", f)
           IN last' = [op |-> "try_clone", api |-> file.api, id |-> id,
                       given |-> files[id].given, answer |-> o,
                       res |-> TryCloneBy(file, o)]
        /\ UNCHANGED <<fs, files, dirs>>

\* the clone the caller holds
HoldsClone == last.op \in {"try_clone", "on_clone"} /\ "answer" \in DOMAIN last
TheClone == IF last.op = "try_clone" THEN last.res.val[1] ELSE last.clone

\* one call on the clone, and the same call with the same answer of the
\* platform on the original
CloneUse ==
    \E op \in RetryOps, via \in Vias, f \in StreamFaults :
        /\ HoldsClone
        /\ IF last.op = "try_clone" THEN last.res.ok ELSE TRUE
        /\ LET clone == TheClone
               file == files[last.id].handle
               o == PlatformFileOp(clone.file, StreamPrim(op), f)
           IN last' = [op |-> "on_clone", api |-> last.api, id |-> last.id,
                       given |-> last.given, method |-> op, answer |-> o,
                       clone |-> clone,
                       res |-> StreamBy(op, via, clone, o),
                       original |-> StreamBy(op, via, file, o)]
        /\ UNCHANGED <<fs, files, dirs>>

NextClone ==
    \/ CloneOpen
    \/ CloneTryClone
    \/ CloneUse

SpecClone == InitFile /\ [][NextClone]_vars

CloneFailedMessage(path) ==
    "failed to clone handle for file " \o GRAVE \o path \o GRAVE

\* C28: a successful try_clone returns a File around the platform's new
\* handle with the path of the original, so a call on the clone fails with
\* the error the same call on the original would give, naming the same path;
\* a failing try_clone returns no File but the error "failed to clone handle
\* for file (the original's path)" around the platform's error, of kind Clone
\* for the File of file.rs.
C28_CloneKeepsPath ==
    HoldsClone =>
        IF last.op = "try_clone"
        THEN /\ last.res.ok <=> last.answer.ok
             /\ last.res.ok =>
                    /\ last.res.val[1].path = files[last.id].handle.path
                    /\ last.res.val[1].path = last.given
                    /\ last.res.val[1].file = last.answer.val[1]
                    /\ last.res.val[1].api = last.api
             /\ ~last.res.ok =>
                    /\ last.res.val = <<>>
                    /\ Message(last.res.err) = CloneFailedMessage(last.given)
                    /\ SourceOfAny(last.res.err) = Some(last.answer.err)
                    /\ last.api = "sync" =>
                           /\ last.res.err.inner.kind = "Clone"
                           /\ PathsOf(last.res.err) = <<last.given>>
        ELSE /\ last.res = last.original
             /\ last.clone.path = last.given
             /\ (~last.res.ok /\ last.api = "sync") =>
                    PathsOf(last.res.err) = <<last.given>>

\* a write on the clone of the File opened on a.txt fails as on the original
C28_Witness ==
    /\ HoldsClone
    /\ last.op = "on_clone"
    /\ last.api = "sync"
    /\ last.given = "a.txt"
    /\ last.method = "write"
    /\ ~last.res.ok
    /\ Message(last.res.err) = "failed to write to file " \o GRAVE \o "a.txt" \o GRAVE
    /\ last.original = last.res

(***************************************************************************)
(* The error of poll_close, on the File that SpecPoll polls.               *)
(***************************************************************************)
CloseFailed ==
    /\ FilePolled
    /\ last.op = "poll_close"
    /\ last.poll = "ready"
    /\ ~last.res.ok

FlushFailedMessage(path) == "failed to flush file " \o GRAVE \o path \o GRAVE

\* C29: a poll_close of the async File that fails gives an error of kind
\* Flush that reads "failed to flush file (the path)", the very error a
\* poll_flush of the same File gives when the platform fails it the same way.
C29_CloseReportsFlush ==
    CloseFailed =>
        /\ last.res.err.inner.ty = "Error"
        /\ last.res.err.inner.kind = "Flush"
        /\ Message(last.res.err) = FlushFailedMessage(last.given)
        /\ Ready(last.res) = AsyncFilePollFlush(files[last.id].handle, last.answers[1])

\* closing the File opened on a.txt fails with an I/O error
C29_Witness ==
    /\ CloseFailed
    /\ last.given = "a.txt"
    /\ last.answers[1] = Ready(Err(EIO))
    /\ Message(last.res.err) = "failed to flush file " \o GRAVE \o "a.txt" \o GRAVE

(***************************************************************************)
(* SpecBuf: initial_buffer_size on every length the probe can report.  A   *)
(* u64 is U64Bits wide here and usize as wide as the target says; a build  *)
(* has overflow checks or has none.                                        *)
(***************************************************************************)
Lengths == 0..(Pow2(U64Bits) - 1)

\* what the metadata probe reports: a length, or a failure
Reports == {Ok(<<n>>) : n \in Lengths} \cup {Err(EIO)}

BufInputs ==
    {[op |-> "input", probe |-> probe, bits |-> bits, checks |-> checks] :
        probe \in Reports, bits \in Targets, checks \in BOOLEAN}

InitBuf ==
    /\ fs = FileTree
    /\ files = NoFiles
    /\ dirs = NoDirs
    /\ last \in BufInputs

CallInitialBufferSize ==
    /\ last.op = "input"
    /\ last' = [op |-> "initial_buffer_size", probe |-> last.probe,
                bits |-> last.bits, checks |-> last.checks,
                out |-> InitialBufferSize(last.probe, last.bits, last.checks)]
    /\ UNCHANGED <<fs, files, dirs>>

NextBuf == CallInitialBufferSize

SpecBuf == InitBuf /\ [][NextBuf]_vars

Sized == last.op = "initial_buffer_size" /\ last.probe.ok

\* C30: for every length the probe reports, on either width of usize,
\* initial_buffer_size does not panic and returns the length plus one, a
\* capacity not smaller than the length.
C30_LengthPlusOneExact ==
    Sized =>
        /\ ~last.out.panic
        /\ last.out.cap >= last.probe.val[1]
        /\ last.out.cap = last.probe.val[1] + 1

\* C30, the part the code keeps: the length plus one whenever that fits in
\* usize
C30_ExactWhenItFits ==
    (Sized /\ last.probe.val[1] + 1 < Pow2(last.bits)) =>
        /\ ~last.out.panic
        /\ last.out.cap = last.probe.val[1] + 1

=============================================================================
